---- MODULE Spec2Model ----
(***************************************************************************)
(* Model of the multi-agent student analysis pipeline: the coordinator     *)
(* (coordenador.py) and its five stages (desempenho.py, engajamento.py,    *)
(* diagnostico.py, validador.py, conselheiro.py).                          *)
(*                                                                         *)
(* Conventions                                                             *)
(*  - A Python float is an exact rational [n |-> _, d |-> _] with d > 0,   *)
(*    kept reduced.  Grades of the model are integers on the 0-10 scale.   *)
(*  - A Python str is a sequence of tokens (words and punctuation marks);  *)
(*    "x in s" on strings is contiguous-subsequence containment and        *)
(*    s.lower() maps every token to its lower-case form.                   *)
(*  - A Python dict with fixed string keys is a TLA+ record; d.get(k, v)   *)
(*    is Get(d, k, v).  A dict keyed by data (subjects) is a sequence of   *)
(*    [k, v] pairs in insertion order.                                     *)
(*  - An exception raised inside a stage's try block is the stage's        *)
(*    input "falha"; the stage's except clause turns it into a result      *)
(*    with status "erro".                                                  *)
(***************************************************************************)
EXTENDS Integers, Sequences, FiniteSets, TLC

----------------------------------------------------------------------------
(* Numbers *)

Abs(x) == IF x < 0 THEN -x ELSE x

RECURSIVE GCD(_, _)
GCD(a, b) == IF b = 0 THEN a ELSE GCD(b, a % b)

Rat(n, d) == LET g == GCD(Abs(n), d) IN [n |-> n \div g, d |-> d \div g]

Int2Rat(i) == [n |-> i, d |-> 1]

RatSub(a, b) == Rat(a.n * b.d - b.n * a.d, a.d * b.d)

Gt(a, b) == a.n * b.d > b.n * a.d

Lt(a, b) == a.n * b.d < b.n * a.d

\* |r| * 10^casas rounded to an integer, ties to even (format and round)
RoundMag(r, escala) ==
    LET a   == Abs(r.n) * escala
        q   == a \div r.d
        rem == a - q * r.d
    IN  IF 2 * rem > r.d \/ (2 * rem = r.d /\ q % 2 = 1) THEN q + 1 ELSE q

\* f"{r:.1f}"
Fmt1(r) ==
    LET t == RoundMag(r, 10)
    IN  (IF r.n < 0 THEN "-" ELSE "") \o ToString(t \div 10) \o "." \o ToString(t % 10)

\* f"{r:.0f}"
Fmt0(r) == (IF r.n < 0 THEN "-" ELSE "") \o ToString(RoundMag(r, 1))

\* round(r, 1)
Round1(r) == Rat((IF r.n < 0 THEN -1 ELSE 1) * RoundMag(r, 10), 10)

----------------------------------------------------------------------------
(* Sequences, dicts and strings *)

Range(s) == {s[i] : i \in DOMAIN s}

RECURSIVE Sum(_)
Sum(s) == IF s = <<>> THEN 0 ELSE Head(s) + Sum(Tail(s))

RECURSIVE Concat(_)
Concat(ss) == IF ss = <<>> THEN <<>> ELSE Head(ss) \o Concat(Tail(ss))

\* d.get(k, default) on a dict with fixed string keys
Get(d, k, default) == IF k \in DOMAIN d THEN d[k] ELSE default

\* a dict keyed by data: sequence of [k, v] in insertion order
DictKeys(d) == {d[i].k : i \in DOMAIN d}

DictHas(d, key) == key \in DictKeys(d)

DictVal(d, key) == d[CHOOSE i \in DOMAIN d : d[i].k = key].v

\* d[key] = d.get(key, 0) + 1, keeping insertion order
DictInc(d, key) ==
    IF DictHas(d, key)
    THEN [i \in DOMAIN d |-> IF d[i].k = key THEN [k |-> key, v |-> d[i].v + 1] ELSE d[i]]
    ELSE Append(d, [k |-> key, v |-> 1])

\* needle in haystack (str): a contiguous run of tokens
Contains(haystack, needle) ==
    \E i \in 0..(Len(haystack) - Len(needle)) :
        \A j \in 1..Len(needle) : haystack[i + j] = needle[j]

\* the tokens with an upper-case letter, and their lower-case form
LowerTab ==
    ("A" :> "a") @@ ("O" :> "o") @@ ("Queda" :> "queda") @@
    ("Dificuldade" :> "dificuldade") @@ ("Desempenho" :> "desempenho") @@
    ("Hipótese" :> "hipótese") @@ ("Nuances" :> "nuances") @@
    ("Evidências" :> "evidências") @@ ("Frequência" :> "frequência") @@
    ("Disciplinas" :> "disciplinas") @@ ("Ausências" :> "ausências") @@
    ("Múltiplas" :> "múltiplas") @@ ("True" :> "true") @@ ("False" :> "false") @@
    ("Erro" :> "erro") @@ ("Calculo" :> "calculo") @@ ("Fisica" :> "fisica") @@
    ("Quimica" :> "quimica") @@ ("Desengajamento" :> "desengajamento") @@
    ("Geral" :> "geral")

\* s.lower()
Lower(s) == [i \in DOMAIN s |-> IF s[i] \in DOMAIN LowerTab THEN LowerTab[s[i]] ELSE s[i]]

\* ', '.join(nomes)
RECURSIVE JoinComma(_)
JoinComma(nomes) ==
    IF nomes = <<>> THEN <<>>
    ELSE IF Len(nomes) = 1 THEN <<nomes[1]>>
    ELSE <<nomes[1], ",">> \o JoinComma(Tail(nomes))

\* ' '.join(frases)
JoinSpace(frases) == Concat(frases)

\* s.replace(marca, valor) for a one-token placeholder
Replace(s, marca, valor) == [i \in DOMAIN s |-> IF s[i] = marca THEN valor ELSE s[i]]

\* str(e) of an exception caught by a stage
MsgFalha == <<"falha", "interna">>

----------------------------------------------------------------------------
(* base.py *)

AgentResponse(agent_name, status, resultado, detalhes) ==
    [agent_name |-> agent_name, status |-> status,
     resultado |-> resultado, detalhes |-> detalhes]

\* an except clause that files the message under another key than 'erro'
RespostaErro_sem_chave(nome_agente, prefixo, msg) ==
    AgentResponse(nome_agente, "erro", prefixo \o msg, [mensagem |-> msg])

\* the value the except clause of a stage returns for an exception with str(e) = msg
RespostaErro(nome_agente, prefixo, msg) ==
    AgentResponse(nome_agente, "erro", prefixo \o msg, [erro |-> msg])

----------------------------------------------------------------------------
(* desempenho.py *)

_calcular_media(notas) ==
    IF notas = <<>> THEN Int2Rat(0) ELSE Rat(Sum(notas), Len(notas))

\* _identificar_disciplinas_criticas with the threshold closed (<= 6.0)
_identificar_disciplinas_criticas_inclusivo(disciplinas) ==
    LET criticas == SelectSeq(disciplinas,
                              LAMBDA p : ~Gt(_calcular_media(p.v), Int2Rat(6)))
    IN  [i \in DOMAIN criticas |-> criticas[i].k]

_identificar_disciplinas_criticas(disciplinas) ==
    LET criticas == SelectSeq(disciplinas,
                              LAMBDA p : Lt(_calcular_media(p.v), Int2Rat(6)))
    IN  [i \in DOMAIN criticas |-> criticas[i].k]

Desempenho_montar_resultado(media_atual, media_anterior, queda, criticas) ==
    <<"Detectada", "queda", "de", Fmt1(queda), "pontos", "na", "média", "geral", ",",
      "de", Fmt1(media_anterior), "para", Fmt1(media_atual), ".">>
    \o (IF criticas # <<>>
        THEN <<"Disciplinas", "críticas", "identificadas", ":">>
             \o JoinComma(criticas) \o <<".">>
        ELSE <<"Nenhuma", "disciplina", "com", "desempenho", "crítico", ".">>)

AnalisadorDesempenho_analisar(nome_agente, dados, falha) ==
    IF falha
    THEN RespostaErro(nome_agente, <<"Erro", "ao", "analisar", "desempenho", ":">>, MsgFalha)
    ELSE
    LET notas_atuais         == Get(dados, "notas_atuais", <<>>)
        notas_anteriores     == Get(dados, "notas_anteriores", <<>>)
        disciplinas          == Get(dados, "disciplinas", <<>>)
        media_atual          == _calcular_media(notas_atuais)
        media_anterior       == _calcular_media(notas_anteriores)
        disciplinas_criticas == _identificar_disciplinas_criticas(disciplinas)
        queda_rendimento     == RatSub(media_anterior, media_atual)
    IN  AgentResponse(nome_agente, "sucesso",
            Desempenho_montar_resultado(media_atual, media_anterior,
                                        queda_rendimento, disciplinas_criticas),
            [media_atual          |-> media_atual,
             media_anterior       |-> media_anterior,
             queda_rendimento     |-> queda_rendimento,
             disciplinas_criticas |-> disciplinas_criticas])

----------------------------------------------------------------------------
(* engajamento.py *)

\* _calcular_percentual_presenca giving 100.0 for no events
_calcular_percentual_presenca_vazio_100(eventos) ==
    IF eventos = <<>> THEN Int2Rat(100)
    ELSE LET presencas == Len(SelectSeq(eventos, LAMBDA e : Get(e, "presenca", 0) = 1))
             total     == Len(eventos)
         IN  IF total > 0 THEN Rat(presencas * 100, total) ELSE Int2Rat(0)

_calcular_percentual_presenca(eventos) ==
    IF eventos = <<>> THEN Int2Rat(0)
    ELSE LET presencas == Len(SelectSeq(eventos, LAMBDA e : Get(e, "presenca", 0) = 1))
             total     == Len(eventos)
         IN  IF total > 0 THEN Rat(presencas * 100, total) ELSE Int2Rat(0)

RECURSIVE ContarAusencias(_, _)
ContarAusencias(eventos, acc) ==
    IF eventos = <<>> THEN acc
    ELSE LET evento == Head(eventos)
         IN  ContarAusencias(Tail(eventos),
                 IF Get(evento, "presenca", 0) = 0
                 THEN DictInc(acc, Get(evento, "disciplina", "Desconhecida"))
                 ELSE acc)

_identificar_padroes_ausencia(eventos) ==
    LET ausencias_por_disciplina == ContarAusencias(eventos, <<>>)
    IN  [total_ausencias |->
             Sum([i \in DOMAIN ausencias_por_disciplina |-> ausencias_por_disciplina[i].v]),
         ausencias_por_disciplina |-> ausencias_por_disciplina]

\* max(d, key=d.get): the first key, in insertion order, with the greatest count
DictArgMax(d) ==
    d[CHOOSE i \in DOMAIN d :
          /\ \A j \in DOMAIN d : d[j].v <= d[i].v
          /\ \A j \in 1..(i - 1) : d[j].v < d[i].v].k

Engajamento_montar_resultado(percentual, padroes) ==
    LET total_ausencias      == Get(padroes, "total_ausencias", 0)
        ausencias_disciplina == Get(padroes, "ausencias_por_disciplina", <<>>)
    IN  <<"Frequência", "de", "presença", ":", Fmt1(percentual), "%", ".">>
        \o (IF total_ausencias > 0
            THEN <<"Total", "de", "ausências", "identificadas", ":",
                   ToString(total_ausencias), ".">>
                 \o (IF ausencias_disciplina # <<>>
                     THEN <<"Maior", "concentração", "de", "ausências", "em", ":",
                            DictArgMax(ausencias_disciplina), ".">>
                     ELSE <<>>)
            ELSE <<"Nenhuma", "ausência", "registrada", ".">>)

AnalisadorEngajamento_analisar(nome_agente, dados, falha) ==
    IF falha
    THEN RespostaErro(nome_agente, <<"Erro", "ao", "analisar", "engajamento", ":">>, MsgFalha)
    ELSE
    LET eventos             == Get(dados, "eventos", <<>>)
        percentual_presenca == _calcular_percentual_presenca(eventos)
        padroes_ausencia    == _identificar_padroes_ausencia(eventos)
    IN  AgentResponse(nome_agente, "sucesso",
            Engajamento_montar_resultado(percentual_presenca, padroes_ausencia),
            [percentual_presenca |-> percentual_presenca,
             padroes_ausencia    |-> padroes_ausencia])

----------------------------------------------------------------------------
(* diagnostico.py *)

HipoteseQuedaGeral ==
    <<"Queda", "de", "rendimento", "geral", "por", "desengajamento", ".">>

HipoteseDificuldade(disciplina, com_ausencias) ==
    <<"Dificuldade", "específica", "em", disciplina>>
    \o (IF com_ausencias THEN <<"com", "ausências", "concentradas", ".">> ELSE <<".">>)

HipoteseQuedaSeletiva ==
    <<"Queda", "de", "rendimento", "com", "padrão", "de", "ausências", "seletivas", ".">>

HipoteseEstavel ==
    <<"Desempenho", "relativamente", "estável", "com", "possível", "desengajamento",
      "em", "disciplinas", "específicas", ".">>

\* _formular_hipotese with the second and third branches in the other order
_formular_hipotese_trocada(detalhes_desempenho, detalhes_engajamento) ==
    LET queda_rendimento     == Get(detalhes_desempenho, "queda_rendimento", Int2Rat(0))
        percentual_presenca  == Get(detalhes_engajamento, "percentual_presenca", Int2Rat(100))
        disciplinas_criticas == Get(detalhes_desempenho, "disciplinas_criticas", <<>>)
        ausencias_disciplina == Get(Get(detalhes_engajamento, "padroes_ausencia", <<>>),
                                    "ausencias_por_disciplina", <<>>)
    IN  IF Gt(queda_rendimento, Rat(20, 10)) /\ Lt(percentual_presenca, Int2Rat(70))
        THEN HipoteseQuedaGeral
        ELSE IF Gt(queda_rendimento, Rat(15, 10))
        THEN HipoteseQuedaSeletiva
        ELSE IF disciplinas_criticas # <<>> /\ Len(disciplinas_criticas) = 1
        THEN HipoteseDificuldade(disciplinas_criticas[1],
                                 DictHas(ausencias_disciplina, disciplinas_criticas[1]))
        ELSE HipoteseEstavel

\* _formular_hipotese without the test on the absences of the critical subject
_formular_hipotese_sem_ausencias(detalhes_desempenho, detalhes_engajamento) ==
    LET queda_rendimento     == Get(detalhes_desempenho, "queda_rendimento", Int2Rat(0))
        percentual_presenca  == Get(detalhes_engajamento, "percentual_presenca", Int2Rat(100))
        disciplinas_criticas == Get(detalhes_desempenho, "disciplinas_criticas", <<>>)
    IN  IF Gt(queda_rendimento, Rat(20, 10)) /\ Lt(percentual_presenca, Int2Rat(70))
        THEN HipoteseQuedaGeral
        ELSE IF disciplinas_criticas # <<>> /\ Len(disciplinas_criticas) = 1
        THEN HipoteseDificuldade(disciplinas_criticas[1], FALSE)
        ELSE IF Gt(queda_rendimento, Rat(15, 10))
        THEN HipoteseQuedaSeletiva
        ELSE HipoteseEstavel

_formular_hipotese(detalhes_desempenho, detalhes_engajamento) ==
    LET queda_rendimento     == Get(detalhes_desempenho, "queda_rendimento", Int2Rat(0))
        percentual_presenca  == Get(detalhes_engajamento, "percentual_presenca", Int2Rat(100))
        disciplinas_criticas == Get(detalhes_desempenho, "disciplinas_criticas", <<>>)
        ausencias_disciplina == Get(Get(detalhes_engajamento, "padroes_ausencia", <<>>),
                                    "ausencias_por_disciplina", <<>>)
    IN  IF Gt(queda_rendimento, Rat(20, 10)) /\ Lt(percentual_presenca, Int2Rat(70))
        THEN HipoteseQuedaGeral
        ELSE IF disciplinas_criticas # <<>> /\ Len(disciplinas_criticas) = 1
        THEN HipoteseDificuldade(disciplinas_criticas[1],
                                 DictHas(ausencias_disciplina, disciplinas_criticas[1]))
        ELSE IF Gt(queda_rendimento, Rat(15, 10))
        THEN HipoteseQuedaSeletiva
        ELSE HipoteseEstavel

AgenteDiagnostico_analisar(nome_agente, dados, falha) ==
    IF falha
    THEN RespostaErro(nome_agente, <<"Erro", "ao", "formular", "diagnóstico", ":">>, MsgFalha)
    ELSE
    LET detalhes_desempenho  == Get(dados, "detalhes_desempenho", <<>>)
        detalhes_engajamento == Get(dados, "detalhes_engajamento", <<>>)
    IN  AgentResponse(nome_agente, "sucesso",
            _formular_hipotese(detalhes_desempenho, detalhes_engajamento),
            [desempenho |-> detalhes_desempenho, engajamento |-> detalhes_engajamento])

----------------------------------------------------------------------------
(* validador.py *)

NuanceQuestionavel ==
    <<"A", "hipótese", "de", "desengajamento", "geral", "é", "questionável", ".",
      "O", "problema", "parece", "concentrado", "em", "uma", "disciplina",
      "específica", ".">>

NuanceMultiplas ==
    <<"Múltiplas", "disciplinas", "críticas", "sugerem", "que", "o", "problema",
      "pode", "ser", "mais", "amplo", "que", "uma", "dificuldade", "específica", ".">>

EvidenciaQueda(queda_rendimento) ==
    <<"Queda", "de", Fmt1(queda_rendimento), "pontos", "confirma", "desempenho",
      "reduzido", ".">>

EvidenciaFrequencia(percentual_presenca) ==
    <<"Frequência", "de", Fmt1(percentual_presenca), "%", "indica", "baixo",
      "engajamento", ".">>

EvidenciaCriticas(disciplinas_criticas) ==
    <<"Disciplinas", "críticas", "identificadas", ":">> \o JoinComma(disciplinas_criticas)

EvidenciaAusencias(disciplina) ==
    <<"Ausências", "concentradas", "em", disciplina, "reforçam", "a", "hipótese", ".">>

\* _validar_hipotese with its first test loosened to the single word 'geral'
_validar_hipotese_geral_solto(hipotese, detalhes_desempenho, detalhes_engajamento) ==
    LET queda_rendimento     == Get(detalhes_desempenho, "queda_rendimento", Int2Rat(0))
        percentual_presenca  == Get(detalhes_engajamento, "percentual_presenca", Int2Rat(100))
        disciplinas_criticas == Get(detalhes_desempenho, "disciplinas_criticas", <<>>)
        ausencias_disciplina == Get(Get(detalhes_engajamento, "padroes_ausencia", <<>>),
                                    "ausencias_por_disciplina", <<>>)
        geral      == Contains(Lower(hipotese), <<"geral">>)
        especifica == ~geral /\ Contains(Lower(hipotese), <<"dificuldade", "específica">>)
        refutada   == geral /\ Len(disciplinas_criticas) = 1
                            /\ Gt(percentual_presenca, Int2Rat(60))
        confirmada == ~refutada
        nuances ==
            IF refutada THEN <<NuanceQuestionavel>>
            ELSE IF especifica /\ Len(disciplinas_criticas) > 1 THEN <<NuanceMultiplas>>
            ELSE <<>>
        evidencias ==
            IF geral /\ ~refutada
            THEN <<EvidenciaQueda(queda_rendimento), EvidenciaFrequencia(percentual_presenca)>>
            ELSE IF especifica /\ ~(Len(disciplinas_criticas) > 1)
            THEN <<EvidenciaCriticas(disciplinas_criticas)>>
                 \o (IF DictHas(ausencias_disciplina, disciplinas_criticas[1])
                     THEN <<EvidenciaAusencias(disciplinas_criticas[1])>>
                     ELSE <<>>)
            ELSE <<>>
        resultado ==
            <<"Hipótese", "validada", ":", IF confirmada THEN "True" ELSE "False", ".">>
            \o (IF nuances # <<>> THEN <<"Nuances", ":">> \o JoinSpace(nuances) ELSE <<>>)
            \o (IF evidencias # <<>> THEN <<"Evidências", ":">> \o JoinSpace(evidencias)
                ELSE <<>>)
    IN  IF especifica /\ ~(Len(disciplinas_criticas) > 1) /\ disciplinas_criticas = <<>>
        THEN [excecao |-> <<"list", "index", "out", "of", "range">>]
        ELSE [resultado  |-> resultado,
              confirmada |-> confirmada,
              nuances    |-> nuances,
              evidencias |-> evidencias]

\* the dict _validar_hipotese returns, or [excecao |-> str(e)] when it raises
_validar_hipotese(hipotese, detalhes_desempenho, detalhes_engajamento) ==
    LET queda_rendimento     == Get(detalhes_desempenho, "queda_rendimento", Int2Rat(0))
        percentual_presenca  == Get(detalhes_engajamento, "percentual_presenca", Int2Rat(100))
        disciplinas_criticas == Get(detalhes_desempenho, "disciplinas_criticas", <<>>)
        ausencias_disciplina == Get(Get(detalhes_engajamento, "padroes_ausencia", <<>>),
                                    "ausencias_por_disciplina", <<>>)
        geral      == Contains(Lower(hipotese), <<"desengajamento", "geral">>)
        especifica == ~geral /\ Contains(Lower(hipotese), <<"dificuldade", "específica">>)
        refutada   == geral /\ Len(disciplinas_criticas) = 1
                            /\ Gt(percentual_presenca, Int2Rat(60))
        confirmada == ~refutada
        nuances ==
            IF refutada THEN <<NuanceQuestionavel>>
            ELSE IF especifica /\ Len(disciplinas_criticas) > 1 THEN <<NuanceMultiplas>>
            ELSE <<>>
        evidencias ==
            IF geral /\ ~refutada
            THEN <<EvidenciaQueda(queda_rendimento), EvidenciaFrequencia(percentual_presenca)>>
            ELSE IF especifica /\ ~(Len(disciplinas_criticas) > 1)
            THEN <<EvidenciaCriticas(disciplinas_criticas)>>
                 \o (IF DictHas(ausencias_disciplina, disciplinas_criticas[1])
                     THEN <<EvidenciaAusencias(disciplinas_criticas[1])>>
                     ELSE <<>>)
            ELSE <<>>
        resultado ==
            <<"Hipótese", "validada", ":", IF confirmada THEN "True" ELSE "False", ".">>
            \o (IF nuances # <<>> THEN <<"Nuances", ":">> \o JoinSpace(nuances) ELSE <<>>)
            \o (IF evidencias # <<>> THEN <<"Evidências", ":">> \o JoinSpace(evidencias)
                ELSE <<>>)
    IN  IF especifica /\ ~(Len(disciplinas_criticas) > 1) /\ disciplinas_criticas = <<>>
        THEN [excecao |-> <<"list", "index", "out", "of", "range">>]
        ELSE [resultado  |-> resultado,
              confirmada |-> confirmada,
              nuances    |-> nuances,
              evidencias |-> evidencias]

ValidadorHipoteses_analisar(nome_agente, dados, falha) ==
    IF falha
    THEN RespostaErro(nome_agente, <<"Erro", "ao", "validar", "hipótese", ":">>, MsgFalha)
    ELSE
    LET hipotese             == Get(dados, "hipotese", <<>>)
        detalhes_desempenho  == Get(dados, "detalhes_desempenho", <<>>)
        detalhes_engajamento == Get(dados, "detalhes_engajamento", <<>>)
        validacao == _validar_hipotese(hipotese, detalhes_desempenho, detalhes_engajamento)
    IN  IF "excecao" \in DOMAIN validacao
        THEN RespostaErro(nome_agente, <<"Erro", "ao", "validar", "hipótese", ":">>,
                          validacao.excecao)
        ELSE AgentResponse(nome_agente, "sucesso", validacao.resultado,
                 [confirmada |-> validacao.confirmada,
                  nuances    |-> validacao.nuances,
                  evidencias |-> validacao.evidencias])

----------------------------------------------------------------------------
(* conselheiro.py *)

PlaybookIds == {"PB_PEDAG_01", "PB_PEDAG_02", "PB_PEDAG_03", "PB_PEDAG_04"}

PLAYBOOK ==
    [id \in PlaybookIds |->
        CASE id = "PB_PEDAG_01" ->
               [titulo    |-> "Acompanhamento Geral Intensivo",
                descricao |-> "Programa de acompanhamento semanal com coordenador",
                canal     |-> "Sistema Acadêmico / E-mail do Coordenador",
                template  |-> <<"ALERTA", ":", "Aluno", "[Nome]", "(", "ID", ":",
                                "{id_aluno}", ")", "apresentou", "sinais", "de",
                                "desengajamento", "geral", ".", "Sugestão", ":",
                                "Acompanhamento", "semanal", "com", "o", "coordenador",
                                "do", "curso", ".">>]
          [] id = "PB_PEDAG_02" ->
               [titulo    |-> "Agendar Reunião de Apoio Pedagógico Focado",
                descricao |-> "Reunião com foco em disciplina específica",
                canal     |-> "Sistema Acadêmico / E-mail do Coordenador",
                template  |-> <<"ALERTA", ":", "Aluno", "[Nome]", "(", "ID", ":",
                                "{id_aluno}", ")", "apresentou", "sinais", "de",
                                "dificuldade", "pontual", ".", "Sugestão", ":",
                                "Coordenador", "do", "curso", "deve", "convidá-lo",
                                "para", "uma", "conversa", "e", "oferecer", "tutoria",
                                "específica", "para", "a", "disciplina", "crítica", ".">>]
          [] id = "PB_PEDAG_03" ->
               [titulo    |-> "Oferecer Tutoria Especializada",
                descricao |-> "Tutoria com especialista na disciplina",
                canal     |-> "Sistema Acadêmico / E-mail do Tutor",
                template  |-> <<"ALERTA", ":", "Aluno", "[Nome]", "(", "ID", ":",
                                "{id_aluno}", ")", "necessita", "de", "tutoria",
                                "especializada", ".", "Sugestão", ":", "Tutor", "deve",
                                "entrar", "em", "contato", "para", "oferecer", "sessões",
                                "de", "reforço", ".">>]
          [] id = "PB_PEDAG_04" ->
               [titulo    |-> "Avaliação Psicopedagógica",
                descricao |-> "Encaminhamento para avaliação especializada",
                canal     |-> "Sistema Acadêmico / E-mail do Psicopedagogo",
                template  |-> <<"ALERTA", ":", "Aluno", "[Nome]", "(", "ID", ":",
                                "{id_aluno}", ")", "apresenta", "sinais", "que",
                                "sugerem", "necessidade", "de", "avaliação",
                                "especializada", ".", "Sugestão", ":", "Encaminhar",
                                "para", "psicopedagogo", ".">>]]

\* the rule chain of _escolher_acao with the attendance tests closed (>= and <=)
EscolherPlaybookId_inclusivo(detalhes_desempenho, detalhes_engajamento) ==
    LET queda_rendimento     == Get(detalhes_desempenho, "queda_rendimento", Int2Rat(0))
        percentual_presenca  == Get(detalhes_engajamento, "percentual_presenca", Int2Rat(100))
        disciplinas_criticas == Get(detalhes_desempenho, "disciplinas_criticas", <<>>)
    IN  IF Gt(queda_rendimento, Rat(30, 10)) /\ ~Gt(percentual_presenca, Int2Rat(50))
        THEN "PB_PEDAG_04"
        ELSE IF Len(disciplinas_criticas) = 1 /\ ~Lt(percentual_presenca, Int2Rat(70))
        THEN "PB_PEDAG_02"
        ELSE IF Len(disciplinas_criticas) > 1 /\ ~Gt(percentual_presenca, Int2Rat(70))
        THEN "PB_PEDAG_01"
        ELSE "PB_PEDAG_03"

\* the rule chain of _escolher_acao: the playbook id it selects
EscolherPlaybookId(detalhes_desempenho, detalhes_engajamento) ==
    LET queda_rendimento     == Get(detalhes_desempenho, "queda_rendimento", Int2Rat(0))
        percentual_presenca  == Get(detalhes_engajamento, "percentual_presenca", Int2Rat(100))
        disciplinas_criticas == Get(detalhes_desempenho, "disciplinas_criticas", <<>>)
    IN  IF Gt(queda_rendimento, Rat(30, 10)) /\ Lt(percentual_presenca, Int2Rat(50))
        THEN "PB_PEDAG_04"
        ELSE IF Len(disciplinas_criticas) = 1 /\ Gt(percentual_presenca, Int2Rat(70))
        THEN "PB_PEDAG_02"
        ELSE IF Len(disciplinas_criticas) > 1 /\ Lt(percentual_presenca, Int2Rat(70))
        THEN "PB_PEDAG_01"
        ELSE "PB_PEDAG_03"

\* self.PLAYBOOK.get(playbook_id, self.PLAYBOOK["PB_PEDAG_02"])
PlaybookGet(playbook_id) ==
    IF playbook_id \in DOMAIN PLAYBOOK THEN PLAYBOOK[playbook_id] ELSE PLAYBOOK["PB_PEDAG_02"]

_escolher_acao(diagnostico, detalhes_desempenho, detalhes_engajamento) ==
    LET playbook_id == EscolherPlaybookId(detalhes_desempenho, detalhes_engajamento)
        playbook    == PlaybookGet(playbook_id)
    IN  [playbook_id       |-> playbook_id,
         titulo            |-> playbook.titulo,
         canal             |-> playbook.canal,
         template_mensagem |-> playbook.template]

_montar_recomendacao(acao, id_aluno, nome_aluno) ==
    LET template == Replace(Replace(acao.template_mensagem, "[Nome]", nome_aluno),
                            "{id_aluno}", id_aluno)
    IN  [descricao         |-> <<"Recomendação", ":", acao.titulo>>,
         titulo            |-> acao.titulo,
         canal             |-> acao.canal,
         template_mensagem |-> template]

\* the template_mensagem entry of the detail mapping analisar returns
Conselheiro_template_retornado(acao, recomendacao) == acao.template_mensagem

ConselheiroAcademico_analisar(nome_agente, dados, falha) ==
    IF falha
    THEN RespostaErro(nome_agente, <<"Erro", "ao", "recomendar", "ação", ":">>, MsgFalha)
    ELSE
    LET diagnostico          == Get(dados, "diagnostico", <<>>)
        id_aluno             == Get(dados, "id_aluno", "desconhecido")
        nome_aluno           == Get(dados, "nome_aluno", "Aluno")
        detalhes_desempenho  == Get(dados, "detalhes_desempenho", <<>>)
        detalhes_engajamento == Get(dados, "detalhes_engajamento", <<>>)
        acao         == _escolher_acao(diagnostico, detalhes_desempenho, detalhes_engajamento)
        recomendacao == _montar_recomendacao(acao, id_aluno, nome_aluno)
    IN  AgentResponse(nome_agente, "sucesso", recomendacao.descricao,
            [playbook_id       |-> acao.playbook_id,
             titulo            |-> acao.titulo,
             canal             |-> acao.canal,
             template_mensagem |-> Conselheiro_template_retornado(acao, recomendacao)])

----------------------------------------------------------------------------
(* coordenador.py: pure helpers *)

\* Python's None, as returned by _extrair_dados_aluno and held by unset locals
None == [none |-> TRUE]

RECURSIVE Unique(_)
\* Series.unique(): the distinct values in order of first appearance
Unique(s) ==
    IF s = <<>> THEN <<>>
    ELSE LET resto == Unique(SubSeq(s, 1, Len(s) - 1))
         IN  IF s[Len(s)] \in Range(resto) THEN resto ELSE Append(resto, s[Len(s)])

SeqMax(s) == CHOOSE x \in Range(s) : \A y \in Range(s) : y <= x

\* (tipo_evento == 'prova') & nota.notna()
EhProvaComNota(linha) == linha.tipo_evento = "prova" /\ "nota" \in DOMAIN linha

ColNota(linhas) == [i \in DOMAIN linhas |-> linhas[i].nota]

\* lines 157-211: the structure built from the student's rows
EstruturarDados(dados_aluno_df, nome_aluno, semestre_atual) ==
    LET notas_atuais ==
            ColNota(SelectSeq(dados_aluno_df,
                LAMBDA l : l.semestre_letivo = semestre_atual /\ EhProvaComNota(l)))
        notas_anteriores ==
            ColNota(SelectSeq(dados_aluno_df,
                LAMBDA l : l.semestre_letivo < semestre_atual /\ EhProvaComNota(l)))
        nomes_disciplinas ==
            Unique([i \in DOMAIN dados_aluno_df |-> dados_aluno_df[i].id_disciplina])
        notas_disciplina(disciplina) ==
            ColNota(SelectSeq(dados_aluno_df,
                LAMBDA l : l.id_disciplina = disciplina /\ EhProvaComNota(l)))
        com_notas ==
            SelectSeq(nomes_disciplinas, LAMBDA d : notas_disciplina(d) # <<>>)
        disciplinas ==
            [i \in DOMAIN com_notas |->
                [k |-> com_notas[i], v |-> notas_disciplina(com_notas[i])]]
        aulas == SelectSeq(dados_aluno_df, LAMBDA l : l.tipo_evento = "aula")
        eventos ==
            [i \in DOMAIN aulas |->
                [presenca |-> aulas[i].presenca, disciplina |-> aulas[i].id_disciplina]]
    IN  [nome_aluno        |-> nome_aluno,
         semestre_atual    |-> semestre_atual,
         dados_desempenho  |-> [notas_atuais     |-> notas_atuais,
                                notas_anteriores |-> notas_anteriores,
                                disciplinas      |-> disciplinas],
         dados_engajamento |-> [eventos |-> eventos]]

\* _extrair_dados_aluno without its empty check: no rows give an empty structure
_extrair_dados_aluno_sem_none(tabela, id_aluno) ==
    LET dados_aluno_df == SelectSeq(tabela, LAMBDA l : l.id_aluno = id_aluno)
    IN  IF dados_aluno_df = <<>>
        THEN EstruturarDados(dados_aluno_df, "nan", 0)
        ELSE EstruturarDados(dados_aluno_df, dados_aluno_df[1].nome_aluno,
                 SeqMax([i \in DOMAIN dados_aluno_df |-> dados_aluno_df[i].semestre_letivo]))

\* the data is event-date free: data_evento is copied into the events and never read
_extrair_dados_aluno(tabela, id_aluno) ==
    LET dados_aluno_df == SelectSeq(tabela, LAMBDA l : l.id_aluno = id_aluno)
    IN  IF dados_aluno_df = <<>> THEN None
        ELSE EstruturarDados(dados_aluno_df, dados_aluno_df[1].nome_aluno,
                 SeqMax([i \in DOMAIN dados_aluno_df |-> dados_aluno_df[i].semestre_letivo]))

Min(a, b) == IF a < b THEN a ELSE b

\* _calcular_score_risco with every tier that applies added up (if for elif)
_calcular_score_risco_cumulativo(detalhes_desempenho, detalhes_engajamento) ==
    LET queda      == Get(detalhes_desempenho, "queda_rendimento", Int2Rat(0))
        percentual == Get(detalhes_engajamento, "percentual_presenca", Int2Rat(100))
        fator_queda ==
            (IF Gt(queda, Int2Rat(3)) THEN 50 ELSE 0)
            + (IF Gt(queda, Int2Rat(2)) THEN 40 ELSE 0)
            + (IF Gt(queda, Int2Rat(1)) THEN 20 ELSE 0)
        fator_frequencia ==
            (IF Lt(percentual, Int2Rat(50)) THEN 50 ELSE 0)
            + (IF Lt(percentual, Int2Rat(70)) THEN 30 ELSE 0)
            + (IF Lt(percentual, Int2Rat(85)) THEN 10 ELSE 0)
    IN  fator_queda + fator_frequencia

\* _calcular_score_risco with the decline tiers closed (>= for >)
_calcular_score_risco_inclusivo(detalhes_desempenho, detalhes_engajamento) ==
    LET queda      == Get(detalhes_desempenho, "queda_rendimento", Int2Rat(0))
        percentual == Get(detalhes_engajamento, "percentual_presenca", Int2Rat(100))
        fator_queda ==
            IF ~Lt(queda, Int2Rat(3)) THEN 50
            ELSE IF ~Lt(queda, Int2Rat(2)) THEN 40
            ELSE IF ~Lt(queda, Int2Rat(1)) THEN 20
            ELSE 0
        fator_frequencia ==
            IF Lt(percentual, Int2Rat(50)) THEN 50
            ELSE IF Lt(percentual, Int2Rat(70)) THEN 30
            ELSE IF Lt(percentual, Int2Rat(85)) THEN 10
            ELSE 0
    IN  IF fator_queda + fator_frequencia < 100 THEN fator_queda + fator_frequencia ELSE 100

_calcular_score_risco(detalhes_desempenho, detalhes_engajamento) ==
    LET queda      == Get(detalhes_desempenho, "queda_rendimento", Int2Rat(0))
        percentual == Get(detalhes_engajamento, "percentual_presenca", Int2Rat(100))
        fator_queda ==
            IF Gt(queda, Int2Rat(3)) THEN 50
            ELSE IF Gt(queda, Int2Rat(2)) THEN 40
            ELSE IF Gt(queda, Int2Rat(1)) THEN 20
            ELSE 0
        fator_frequencia ==
            IF Lt(percentual, Int2Rat(50)) THEN 50
            ELSE IF Lt(percentual, Int2Rat(70)) THEN 30
            ELSE IF Lt(percentual, Int2Rat(85)) THEN 10
            ELSE 0
    IN  Min(fator_queda + fator_frequencia, 100)

\* str(detalhes_validacao): the keys and the values of the dict, in order
StrDetalhes(detalhes) ==
    IF "erro" \in DOMAIN detalhes
    THEN <<"erro">> \o detalhes.erro
    ELSE <<"confirmada", IF detalhes.confirmada THEN "True" ELSE "False", "nuances">>
         \o Concat(detalhes.nuances) \o <<"evidencias">> \o Concat(detalhes.evidencias)

_determinar_diagnostico_chave(detalhes_validacao) ==
    IF <<"específica">> \in Range(Get(detalhes_validacao, "nuances", <<>>))
    THEN "DIFICULDADE_PONTUAL_EM_DISCIPLINA_CRITICA"
    ELSE IF Contains(Lower(StrDetalhes(detalhes_validacao)), <<"geral">>)
    THEN "DESENGAJAMENTO_GERAL"
    ELSE "DESEMPENHO_INSTAVEL"

\* 'key' as str(KeyError(key)) shows it
KeyError(chave) == [excecao |-> <<"'" \o chave \o "'">>]

\* the dict _montar_json_final returns, or [excecao |-> str(e)] when it raises;
\* dataAnalise (the wall clock) is left out
_montar_json_final(id_aluno, dados_aluno, resultado_desempenho, resultado_engajamento, resultado_diagnostico, resultado_validacao, resultado_acao) ==
    LET score_risco == _calcular_score_risco(resultado_desempenho.detalhes,
                                             resultado_engajamento.detalhes)
        diagnostico_chave == _determinar_diagnostico_chave(resultado_validacao.detalhes)
        justificativa == resultado_validacao.resultado
        notas_atuais     == dados_aluno.dados_desempenho.notas_atuais
        notas_anteriores == dados_aluno.dados_desempenho.notas_anteriores
    IN  IF "percentual_presenca" \notin DOMAIN resultado_engajamento.detalhes
        THEN KeyError("percentual_presenca")
        ELSE IF "disciplinas_criticas" \notin DOMAIN resultado_desempenho.detalhes
        THEN KeyError("disciplinas_criticas")
        ELSE IF "playbook_id" \notin DOMAIN resultado_acao.detalhes
        THEN KeyError("playbook_id")
        ELSE
        [idAluno          |-> id_aluno,
         scoreRiscoEvasao |-> score_risco,
         diagnosticoChave |-> diagnostico_chave,
         justificativa    |-> justificativa,
         processoDeAnalise |->
            [relatorioDesempenho |-> resultado_desempenho.resultado,
             relatorioEngajamento |-> resultado_engajamento.resultado,
             hipoteseInicial      |-> resultado_diagnostico.resultado,
             validacaoDaHipotese  |-> resultado_validacao.resultado],
         metricasAluno |->
            [mediaGeralSemestreAtual |->
                IF notas_atuais # <<>>
                THEN Round1(Rat(Sum(notas_atuais), Len(notas_atuais))) ELSE Int2Rat(0),
             mediaGeralSemestreAnterior |->
                IF notas_anteriores # <<>>
                THEN Round1(Rat(Sum(notas_anteriores), Len(notas_anteriores)))
                ELSE Int2Rat(0),
             frequenciaPresencaAtual |->
                Fmt0(resultado_engajamento.detalhes.percentual_presenca) \o "%",
             disciplinaCritica |->
                IF resultado_desempenho.detalhes.disciplinas_criticas # <<>>
                THEN resultado_desempenho.detalhes.disciplinas_criticas[1]
                ELSE "Nenhuma"],
         acaoRecomendada |->
            [playbookId       |-> resultado_acao.detalhes.playbook_id,
             canal            |-> resultado_acao.detalhes.canal,
             titulo           |-> resultado_acao.detalhes.titulo,
             templateMensagem |-> resultado_acao.detalhes.template_mensagem]]

----------------------------------------------------------------------------
(* Bounds and input sets *)

\* longest generated record set, in rows
MaxLinhas == 2

NomeDoAluno == ("alu_1" :> "Ana") @@ ("alu_2" :> "Bia")

Linha(id_aluno, semestre, disciplina) ==
    [id_aluno |-> id_aluno, nome_aluno |-> NomeDoAluno[id_aluno],
     semestre_letivo |-> semestre, id_disciplina |-> disciplina]

Prova(id_aluno, semestre, disciplina, nota) ==
    Linha(id_aluno, semestre, disciplina) @@ [tipo_evento |-> "prova", nota |-> nota]

Aula(id_aluno, semestre, disciplina, presenca) ==
    Linha(id_aluno, semestre, disciplina) @@ [tipo_evento |-> "aula", presenca |-> presenca]

\* the rows the generated record sets are made of
Linhas ==
    {Prova("alu_1", s, d, n) : s \in 1..2, d \in {"Calculo", "Fisica"}, n \in {4, 8}}
    \cup {Aula("alu_1", 2, d, p) : d \in {"Calculo", "Fisica"}, p \in {0, 1}}
    \cup {Prova("alu_2", 1, "Calculo", 4)}

SeqsAte(S, n) == UNION {[1..k -> S] : k \in 0..n}

\* attendance of 40%: five class sessions, two attended
Aulas40(disciplina) ==
    <<Aula("alu_1", 2, disciplina, 1), Aula("alu_1", 2, disciplina, 1),
      Aula("alu_1", 2, disciplina, 0), Aula("alu_1", 2, disciplina, 0),
      Aula("alu_1", 2, disciplina, 0)>>

\* record sets of a student with previous-terms mean 8.0, current-term mean 5.0
\* and attendance 40%, with no, one and two critical subjects
Cenarios ==
    { <<Prova("alu_1", 1, "Calculo", 8), Prova("alu_1", 2, "Calculo", 5)>>
          \o Aulas40("Calculo"),
      <<Prova("alu_2", 1, "Calculo", 4), Prova("alu_1", 1, "Calculo", 8),
        Prova("alu_1", 2, "Fisica", 5)>> \o Aulas40("Fisica"),
      <<Prova("alu_1", 1, "Quimica", 8), Prova("alu_1", 2, "Calculo", 5),
        Prova("alu_1", 2, "Fisica", 5)>> \o Aulas40("Calculo") }

\* attendance of 80%: five class sessions, the one missed being of subject ausente
Aulas80(presente, ausente) ==
    <<Aula("alu_1", 2, presente, 1), Aula("alu_1", 2, ausente, 0),
      Aula("alu_1", 2, presente, 1), Aula("alu_1", 2, presente, 1),
      Aula("alu_1", 2, presente, 1)>>

\* record sets of a student with one critical subject (mean 4.0), the other subject
\* at mean 8.0, and attendance 80%; the missed session is of either subject
CenariosDificuldade ==
    { <<Prova("alu_1", 1, outra, 8), Prova("alu_1", 2, critica, 4),
        Prova("alu_1", 2, outra, 8)>> \o Aulas80(presente, ausente) :
          critica \in {"Calculo", "Fisica"}, outra \in {"Quimica"},
          presente \in {"Quimica"}, ausente \in {"Calculo", "Fisica"} }

Datasets == SeqsAte(Linhas, MaxLinhas) \cup Cenarios \cup CenariosDificuldade

\* the mappings analisar is called with: a known id, a second id, an id of no row,
\* an empty id, and a mapping without the key
EntradasAnalisar ==
    {[id_aluno |-> "alu_1"], [id_aluno |-> "alu_2"], [id_aluno |-> "alu_9"],
     [id_aluno |-> ""], <<>>}

----------------------------------------------------------------------------
(* coordenador.py: CoordenadorAnalise.analisar, one action per step *)

VARIABLES
    df,                     \* self.df, the loaded record set
    nome,                   \* self.nome of the coordinator and of each stage
    pc,                     \* position inside analisar
    dados,                  \* the argument of analisar
    dados_aluno,            \* locals of analisar
    resultado_desempenho,
    resultado_engajamento,
    resultado_diagnostico,
    resultado_validacao,
    resultado_acao,
    retorno,                \* the value analisar returned
    chamadas,               \* the stages invoked by this call, in order
    reinvocado              \* whether an earlier call of analisar has returned

vars == <<df, nome, pc, dados, dados_aluno, resultado_desempenho, resultado_engajamento,
          resultado_diagnostico, resultado_validacao, resultado_acao, retorno, chamadas,
          reinvocado>>

Nomes ==
    [coordenador |-> "Coordenador de Análise",
     desempenho  |-> "Analisador de Desempenho",
     engajamento |-> "Analisador de Engajamento",
     diagnostico |-> "Agente de Diagnóstico",
     validador   |-> "Validador de Hipóteses",
     conselheiro |-> "Conselheiro Acadêmico"]

LocaisVazios ==
    /\ dados_aluno = None
    /\ resultado_desempenho = None
    /\ resultado_engajamento = None
    /\ resultado_diagnostico = None
    /\ resultado_validacao = None
    /\ resultado_acao = None

Init ==
    /\ df \in Datasets
    /\ nome = Nomes
    /\ pc = "ocioso"
    /\ dados = <<>>
    /\ LocaisVazios
    /\ retorno = None
    /\ chamadas = <<>>
    /\ reinvocado = FALSE

\* the except clause of analisar
ErroOrquestracao(msg) ==
    AgentResponse(nome.coordenador, "erro", <<"Erro", "na", "orquestração", ":">> \o msg,
                  [erro |-> msg])

\* AnalisarInicio keeping the structure extracted by an earlier call instead of
\* extracting again
AnalisarInicio_com_cache(d) ==
    /\ pc \in {"ocioso", "retornado"}
    /\ dados' = d
    /\ chamadas' = <<>>
    /\ resultado_desempenho' = None
    /\ resultado_engajamento' = None
    /\ resultado_diagnostico' = None
    /\ resultado_validacao' = None
    /\ resultado_acao' = None
    /\ IF "id_aluno" \notin DOMAIN d \/ d.id_aluno = ""
       THEN /\ retorno' = ErroOrquestracao(<<"ID", "do", "aluno", "não", "fornecido">>)
            /\ dados_aluno' = None
            /\ pc' = "retornado"
       ELSE LET extraido == IF dados_aluno # None THEN dados_aluno
                            ELSE _extrair_dados_aluno(df, d.id_aluno)
            IN  IF extraido = None
                THEN /\ retorno' = ErroOrquestracao(
                                       <<"Aluno", d.id_aluno, "não", "encontrado">>)
                     /\ dados_aluno' = None
                     /\ pc' = "retornado"
                ELSE /\ retorno' = None
                     /\ dados_aluno' = extraido
                     /\ pc' = "desempenho"
    /\ reinvocado' = (pc = "retornado")
    /\ UNCHANGED <<df, nome>>

\* lines 70-80: the id check and the extraction
AnalisarInicio(d) ==
    /\ pc \in {"ocioso", "retornado"}
    /\ dados' = d
    /\ chamadas' = <<>>
    /\ resultado_desempenho' = None
    /\ resultado_engajamento' = None
    /\ resultado_diagnostico' = None
    /\ resultado_validacao' = None
    /\ resultado_acao' = None
    /\ IF "id_aluno" \notin DOMAIN d \/ d.id_aluno = ""
       THEN /\ retorno' = ErroOrquestracao(<<"ID", "do", "aluno", "não", "fornecido">>)
            /\ dados_aluno' = None
            /\ pc' = "retornado"
       ELSE LET extraido == _extrair_dados_aluno(df, d.id_aluno)
            IN  IF extraido = None
                THEN /\ retorno' = ErroOrquestracao(
                                       <<"Aluno", d.id_aluno, "não", "encontrado">>)
                     /\ dados_aluno' = None
                     /\ pc' = "retornado"
                ELSE /\ retorno' = None
                     /\ dados_aluno' = extraido
                     /\ pc' = "desempenho"
    /\ reinvocado' = (pc = "retornado")
    /\ UNCHANGED <<df, nome>>

\* lines 83-85
ExecutarDesempenho(falha) ==
    /\ pc = "desempenho"
    /\ resultado_desempenho' =
           AnalisadorDesempenho_analisar(nome.desempenho, dados_aluno.dados_desempenho, falha)
    /\ chamadas' = Append(chamadas, "desempenho")
    /\ pc' = "engajamento"
    /\ UNCHANGED <<df, nome, reinvocado, dados, dados_aluno, resultado_engajamento,
                   resultado_diagnostico, resultado_validacao, resultado_acao, retorno>>

\* lines 87-89
ExecutarEngajamento(falha) ==
    /\ pc = "engajamento"
    /\ resultado_engajamento' =
           AnalisadorEngajamento_analisar(nome.engajamento, dados_aluno.dados_engajamento,
                                          falha)
    /\ chamadas' = Append(chamadas, "engajamento")
    /\ pc' = "diagnostico"
    /\ UNCHANGED <<df, nome, reinvocado, dados, dados_aluno, resultado_desempenho,
                   resultado_diagnostico, resultado_validacao, resultado_acao, retorno>>

\* lines 92-97
ExecutarDiagnostico(falha) ==
    /\ pc = "diagnostico"
    /\ resultado_diagnostico' =
           AgenteDiagnostico_analisar(nome.diagnostico,
               [relatorio_desempenho  |-> resultado_desempenho,
                relatorio_engajamento |-> resultado_engajamento,
                detalhes_desempenho   |-> resultado_desempenho.detalhes,
                detalhes_engajamento  |-> resultado_engajamento.detalhes],
               falha)
    /\ chamadas' = Append(chamadas, "diagnostico")
    /\ pc' = "validacao"
    /\ UNCHANGED <<df, nome, reinvocado, dados, dados_aluno, resultado_desempenho,
                   resultado_engajamento, resultado_validacao, resultado_acao, retorno>>

\* ExecutarValidacao left at the same position, so that the validator can run again
ExecutarValidacao_repetida(falha) ==
    /\ pc = "validacao"
    /\ resultado_validacao' =
           ValidadorHipoteses_analisar(nome.validador,
               [hipotese             |-> resultado_diagnostico.resultado,
                detalhes_desempenho  |-> resultado_desempenho.detalhes,
                detalhes_engajamento |-> resultado_engajamento.detalhes],
               falha)
    /\ chamadas' = Append(chamadas, "validador")
    /\ pc' \in {"validacao", "acao"}
    /\ UNCHANGED <<df, nome, reinvocado, dados, dados_aluno, resultado_desempenho,
                   resultado_engajamento, resultado_diagnostico, resultado_acao, retorno>>

\* lines 100-104
ExecutarValidacao(falha) ==
    /\ pc = "validacao"
    /\ resultado_validacao' =
           ValidadorHipoteses_analisar(nome.validador,
               [hipotese             |-> resultado_diagnostico.resultado,
                detalhes_desempenho  |-> resultado_desempenho.detalhes,
                detalhes_engajamento |-> resultado_engajamento.detalhes],
               falha)
    /\ chamadas' = Append(chamadas, "validador")
    /\ pc' = "acao"
    /\ UNCHANGED <<df, nome, reinvocado, dados, dados_aluno, resultado_desempenho,
                   resultado_engajamento, resultado_diagnostico, resultado_acao, retorno>>

\* lines 107-113
ExecutarAcao(falha) ==
    /\ pc = "acao"
    /\ resultado_acao' =
           ConselheiroAcademico_analisar(nome.conselheiro,
               [diagnostico          |-> resultado_validacao.resultado,
                id_aluno             |-> dados.id_aluno,
                nome_aluno           |-> dados_aluno.nome_aluno,
                detalhes_desempenho  |-> resultado_desempenho.detalhes,
                detalhes_engajamento |-> resultado_engajamento.detalhes],
               falha)
    /\ chamadas' = Append(chamadas, "conselheiro")
    /\ pc' = "montagem"
    /\ UNCHANGED <<df, nome, reinvocado, dados, dados_aluno, resultado_desempenho,
                   resultado_engajamento, resultado_diagnostico, resultado_validacao,
                   retorno>>

\* lines 116-139: the report, or the except clause when assembling it raises
MontarRetorno ==
    /\ pc = "montagem"
    /\ LET json_final ==
               _montar_json_final(dados.id_aluno, dados_aluno, resultado_desempenho,
                                  resultado_engajamento, resultado_diagnostico,
                                  resultado_validacao, resultado_acao)
       IN  retorno' =
               IF "excecao" \in DOMAIN json_final
               THEN ErroOrquestracao(json_final.excecao)
               ELSE AgentResponse(nome.coordenador, "sucesso",
                        <<"Análise", "completa", "realizada", "com", "sucesso">>,
                        json_final)
    /\ pc' = "retornado"
    /\ UNCHANGED <<df, nome, reinvocado, dados, dados_aluno, resultado_desempenho,
                   resultado_engajamento, resultado_diagnostico, resultado_validacao,
                   resultado_acao, chamadas>>

Next ==
    \/ \E d \in EntradasAnalisar : AnalisarInicio(d)
    \/ \E falha \in BOOLEAN : ExecutarDesempenho(falha)
    \/ \E falha \in BOOLEAN : ExecutarEngajamento(falha)
    \/ \E falha \in BOOLEAN : ExecutarDiagnostico(falha)
    \/ \E falha \in BOOLEAN : ExecutarValidacao(falha)
    \/ \E falha \in BOOLEAN : ExecutarAcao(falha)
    \/ MontarRetorno

Spec == Init /\ [][Next]_vars

----------------------------------------------------------------------------
(* The stages called directly, on detail mappings drawn from sets that      *)
(* straddle every threshold of the rule chains                              *)

QuedasTeste == {Rat(q, 10) : q \in {-10, 0, 10, 11, 15, 16, 20, 21, 30, 31, 45}}

PresencasTeste == {Int2Rat(p) : p \in {0, 40, 49, 50, 60, 61, 69, 70, 71, 84, 85, 100}}

CriticasTeste == {<<>>, <<"Calculo">>, <<"Fisica">>, <<"Calculo", "Fisica">>}

AusenciasTeste ==
    {<<>>, <<[k |-> "Calculo", v |-> 2]>>, <<[k |-> "Fisica", v |-> 1]>>,
     <<[k |-> "Fisica", v |-> 1], [k |-> "Calculo", v |-> 2]>>}

DetalhesDesempenhoTeste ==
    {[media_atual          |-> Int2Rat(5),
      media_anterior       |-> RatSub(q, Int2Rat(-5)),
      queda_rendimento     |-> q,
      disciplinas_criticas |-> c] : q \in QuedasTeste, c \in CriticasTeste}

DetalhesEngajamentoTeste ==
    {[percentual_presenca |-> p,
      padroes_ausencia    |->
          [total_ausencias          |-> Sum([i \in DOMAIN a |-> a[i].v]),
           ausencias_por_disciplina |-> a]] : p \in PresencasTeste, a \in AusenciasTeste}

\* a hypothesis text the validator's first check recognises
HipoteseDesengajamentoGeral == <<"Desengajamento", "geral", ".">>

\* hypothesis texts handed to the validator besides the former's own result
HipotesesTeste ==
    {HipoteseQuedaGeral, HipoteseDesengajamentoGeral,
     HipoteseDificuldade("Calculo", FALSE), HipoteseQuedaSeletiva, HipoteseEstavel}

InitEtapas ==
    /\ df = <<>>
    /\ nome = Nomes
    /\ pc = "etapa_diagnostico"
    /\ dados = [id_aluno |-> "alu_1"]
    /\ dados_aluno = [nome_aluno |-> "Ana"]
    /\ \E d \in DetalhesDesempenhoTeste :
           resultado_desempenho = AgentResponse(nome.desempenho, "sucesso", <<>>, d)
    /\ \E e \in DetalhesEngajamentoTeste :
           resultado_engajamento = AgentResponse(nome.engajamento, "sucesso", <<>>, e)
    /\ resultado_diagnostico = None
    /\ resultado_validacao = None
    /\ resultado_acao = None
    /\ retorno = None
    /\ chamadas = <<>>
    /\ reinvocado = FALSE

\* AgenteDiagnostico.analisar on the drawn detail mappings
ChamarDiagnostico ==
    /\ pc = "etapa_diagnostico"
    /\ resultado_diagnostico' =
           AgenteDiagnostico_analisar(nome.diagnostico,
               [relatorio_desempenho  |-> resultado_desempenho,
                relatorio_engajamento |-> resultado_engajamento,
                detalhes_desempenho   |-> resultado_desempenho.detalhes,
                detalhes_engajamento  |-> resultado_engajamento.detalhes],
               FALSE)
    /\ chamadas' = Append(chamadas, "diagnostico")
    /\ pc' = "etapa_validador"
    /\ UNCHANGED <<df, nome, reinvocado, dados, dados_aluno, resultado_desempenho,
                   resultado_engajamento, resultado_validacao, resultado_acao, retorno>>

\* ValidadorHipoteses.analisar on a hypothesis text
ChamarValidador(hipotese) ==
    /\ pc = "etapa_validador"
    /\ resultado_validacao' =
           ValidadorHipoteses_analisar(nome.validador,
               [hipotese             |-> hipotese,
                detalhes_desempenho  |-> resultado_desempenho.detalhes,
                detalhes_engajamento |-> resultado_engajamento.detalhes],
               FALSE)
    /\ dados' = dados @@ [hipotese |-> hipotese]
    /\ chamadas' = Append(chamadas, "validador")
    /\ pc' = "etapa_conselheiro"
    /\ UNCHANGED <<df, nome, reinvocado, dados_aluno, resultado_desempenho, resultado_engajamento,
                   resultado_diagnostico, resultado_acao, retorno>>

\* ConselheiroAcademico.analisar
ChamarConselheiro ==
    /\ pc = "etapa_conselheiro"
    /\ resultado_acao' =
           ConselheiroAcademico_analisar(nome.conselheiro,
               [diagnostico          |-> resultado_validacao.resultado,
                id_aluno             |-> dados.id_aluno,
                nome_aluno           |-> dados_aluno.nome_aluno,
                detalhes_desempenho  |-> resultado_desempenho.detalhes,
                detalhes_engajamento |-> resultado_engajamento.detalhes],
               FALSE)
    /\ chamadas' = Append(chamadas, "conselheiro")
    /\ pc' = "etapa_relatorio"
    /\ UNCHANGED <<df, nome, reinvocado, dados, dados_aluno, resultado_desempenho,
                   resultado_engajamento, resultado_diagnostico, resultado_validacao,
                   retorno>>

\* lines 239-247 of _montar_json_final: the risk score and the key-diagnosis tag
CalcularIndicadores ==
    /\ pc = "etapa_relatorio"
    /\ retorno' =
           [scoreRiscoEvasao |-> _calcular_score_risco(resultado_desempenho.detalhes,
                                                       resultado_engajamento.detalhes),
            diagnosticoChave |-> _determinar_diagnostico_chave(resultado_validacao.detalhes)]
    /\ pc' = "etapa_fim"
    /\ UNCHANGED <<df, nome, reinvocado, dados, dados_aluno, resultado_desempenho,
                   resultado_engajamento, resultado_diagnostico, resultado_validacao,
                   resultado_acao, chamadas>>

\* the ids the playbook table is looked up with: its keys and two ids it lacks
IdsConsultados == PlaybookIds \cup {"PB_PEDAG_05", ""}

\* line 141 of _escolher_acao: PLAYBOOK.get(playbook_id, default)
ConsultarPlaybook(playbook_id) ==
    /\ pc = "etapa_fim"
    /\ retorno' = [playbook_id |-> playbook_id, playbook |-> PlaybookGet(playbook_id)]
    /\ pc' = "etapa_consulta"
    /\ UNCHANGED <<df, nome, reinvocado, dados, dados_aluno, resultado_desempenho,
                   resultado_engajamento, resultado_diagnostico, resultado_validacao,
                   resultado_acao, chamadas>>

NextEtapas ==
    \/ ChamarDiagnostico
    \/ \E h \in HipotesesTeste \cup (IF pc = "etapa_validador"
                                      THEN {resultado_diagnostico.resultado} ELSE {}) :
           ChamarValidador(h)
    \/ ChamarConselheiro
    \/ CalcularIndicadores
    \/ \E id \in IdsConsultados : ConsultarPlaybook(id)

SpecEtapas == InitEtapas /\ [][NextEtapas]_vars

----------------------------------------------------------------------------
(* The two analyzers called directly, in either order, on drawn input mappings *)

\* longest drawn sequence of attendance events
MaxEventos == 3

\* attendance events: attended, missed (of two subjects), and one without the flag
EventosTeste ==
    {[presenca |-> 1, disciplina |-> "Calculo"], [presenca |-> 0, disciplina |-> "Calculo"],
     [presenca |-> 0, disciplina |-> "Fisica"], [disciplina |-> "Calculo"]}

\* the mappings handed to AnalisadorEngajamento.analisar; the last has no key
DadosEngajamentoTeste ==
    {[eventos |-> ev] : ev \in SeqsAte(EventosTeste, MaxEventos)} \cup {<<>>}

\* subject -> scores mappings: means below, at and above 6.0, an empty score
\* sequence, and two orders of the same subjects
DisciplinasTeste ==
    {<<>>,
     <<[k |-> "Calculo", v |-> <<4>>]>>,
     <<[k |-> "Calculo", v |-> <<6>>]>>,
     <<[k |-> "Calculo", v |-> <<>>]>>,
     <<[k |-> "Calculo", v |-> <<5, 7>>]>>,
     <<[k |-> "Calculo", v |-> <<5, 6>>]>>,
     <<[k |-> "Fisica", v |-> <<4>>], [k |-> "Calculo", v |-> <<8>>]>>,
     <<[k |-> "Calculo", v |-> <<4>>], [k |-> "Fisica", v |-> <<5>>]>>,
     <<[k |-> "Fisica", v |-> <<5>>], [k |-> "Calculo", v |-> <<4>>]>>,
     <<[k |-> "Calculo", v |-> <<8>>], [k |-> "Fisica", v |-> <<>>],
       [k |-> "Quimica", v |-> <<3, 8>>]>>}

\* the mappings handed to AnalisadorDesempenho.analisar; the last has no key
DadosDesempenhoTeste ==
    {[notas_atuais |-> na, notas_anteriores |-> nb, disciplinas |-> ds] :
        na \in {<<>>, <<5>>, <<4, 7>>}, nb \in {<<>>, <<8>>}, ds \in DisciplinasTeste}
    \cup {<<>>}

InitAnalisadores ==
    /\ df = <<>>
    /\ nome = Nomes
    /\ pc = "analisadores"
    /\ dados = [id_aluno |-> "alu_1"]
    /\ \E dd \in DadosDesempenhoTeste, de \in DadosEngajamentoTeste :
           dados_aluno = [nome_aluno |-> "Ana", dados_desempenho |-> dd,
                          dados_engajamento |-> de]
    /\ resultado_desempenho = None
    /\ resultado_engajamento = None
    /\ resultado_diagnostico = None
    /\ resultado_validacao = None
    /\ resultado_acao = None
    /\ retorno = None
    /\ chamadas = <<>>
    /\ reinvocado = FALSE

\* ChamarDesempenho made to depend on the other analyzer: once the engagement
\* analyzer has run it finds its input mapping emptied
ChamarDesempenho_dependente(falha) ==
    /\ pc = "analisadores"
    /\ resultado_desempenho = None
    /\ resultado_desempenho' =
           AnalisadorDesempenho_analisar(nome.desempenho,
               IF resultado_engajamento # None THEN <<>> ELSE dados_aluno.dados_desempenho,
               falha)
    /\ chamadas' = Append(chamadas, "desempenho")
    /\ UNCHANGED <<df, nome, reinvocado, pc, dados, dados_aluno, resultado_engajamento,
                   resultado_diagnostico, resultado_validacao, resultado_acao, retorno>>

\* AnalisadorDesempenho.analisar on the drawn mapping
ChamarDesempenho(falha) ==
    /\ pc = "analisadores"
    /\ resultado_desempenho = None
    /\ resultado_desempenho' =
           AnalisadorDesempenho_analisar(nome.desempenho, dados_aluno.dados_desempenho, falha)
    /\ chamadas' = Append(chamadas, "desempenho")
    /\ UNCHANGED <<df, nome, reinvocado, pc, dados, dados_aluno, resultado_engajamento,
                   resultado_diagnostico, resultado_validacao, resultado_acao, retorno>>

\* AnalisadorEngajamento.analisar on the drawn mapping
ChamarEngajamento(falha) ==
    /\ pc = "analisadores"
    /\ resultado_engajamento = None
    /\ resultado_engajamento' =
           AnalisadorEngajamento_analisar(nome.engajamento, dados_aluno.dados_engajamento,
                                          falha)
    /\ chamadas' = Append(chamadas, "engajamento")
    /\ UNCHANGED <<df, nome, reinvocado, pc, dados, dados_aluno, resultado_desempenho,
                   resultado_diagnostico, resultado_validacao, resultado_acao, retorno>>

\* lines 92-124 of analisar on two analyzer results: the diagnosis, the validation,
\* the recommended action, and the risk score and key-diagnosis tag of the report
Derivar(r_desempenho, r_engajamento) ==
    LET r_diagnostico ==
            AgenteDiagnostico_analisar(nome.diagnostico,
                [relatorio_desempenho  |-> r_desempenho,
                 relatorio_engajamento |-> r_engajamento,
                 detalhes_desempenho   |-> r_desempenho.detalhes,
                 detalhes_engajamento  |-> r_engajamento.detalhes],
                FALSE)
        r_validacao ==
            ValidadorHipoteses_analisar(nome.validador,
                [hipotese             |-> r_diagnostico.resultado,
                 detalhes_desempenho  |-> r_desempenho.detalhes,
                 detalhes_engajamento |-> r_engajamento.detalhes],
                FALSE)
        r_acao ==
            ConselheiroAcademico_analisar(nome.conselheiro,
                [diagnostico          |-> r_validacao.resultado,
                 id_aluno             |-> dados.id_aluno,
                 nome_aluno           |-> dados_aluno.nome_aluno,
                 detalhes_desempenho  |-> r_desempenho.detalhes,
                 detalhes_engajamento |-> r_engajamento.detalhes],
                FALSE)
    IN  [diagnostico |-> r_diagnostico,
         validacao   |-> r_validacao,
         acao        |-> r_acao,
         indicadores |->
             [scoreRiscoEvasao |-> _calcular_score_risco(r_desempenho.detalhes,
                                                         r_engajamento.detalhes),
              diagnosticoChave |-> _determinar_diagnostico_chave(r_validacao.detalhes)]]

\* the rest of the pipeline, run once both analyzers have returned
DerivarRestante ==
    /\ pc = "analisadores"
    /\ resultado_desempenho # None
    /\ resultado_engajamento # None
    /\ LET derivados == Derivar(resultado_desempenho, resultado_engajamento)
       IN  /\ resultado_diagnostico' = derivados.diagnostico
           /\ resultado_validacao' = derivados.validacao
           /\ resultado_acao' = derivados.acao
           /\ retorno' = derivados.indicadores
    /\ chamadas' = chamadas \o <<"diagnostico", "validador", "conselheiro">>
    /\ pc' = "derivado"
    /\ UNCHANGED <<df, nome, reinvocado, dados, dados_aluno, resultado_desempenho,
                   resultado_engajamento>>

NextAnalisadores ==
    \/ \E falha \in BOOLEAN : ChamarDesempenho(falha)
    \/ \E falha \in BOOLEAN : ChamarEngajamento(falha)
    \/ DerivarRestante

SpecAnalisadores == InitAnalisadores /\ [][NextAnalisadores]_vars

----------------------------------------------------------------------------
(* Construction: the stages built without arguments, on their own and by       *)
(* CoordenadorAnalise.__init__                                                 *)

\* whether the class defines __init__(self), which passes its name to
\* Agent.__init__; the other two define a method 'agents' and inherit
\* Agent.__init__(self, nome)
DefineInit ==
    [desempenho  |-> TRUE,
     engajamento |-> FALSE,
     diagnostico |-> TRUE,
     validador   |-> FALSE,
     conselheiro |-> TRUE]

\* the order in which CoordenadorAnalise.__init__ builds the stages
OrdemDeConstrucao ==
    <<"desempenho", "engajamento", "diagnostico", "validador", "conselheiro">>

\* Classe(): the name the new object holds, or [excecao |-> str(e)] of the TypeError
ConstruirSemArgumentos(classe) ==
    IF DefineInit[classe]
    THEN [nome |-> Nomes[classe]]
    ELSE [excecao |-> <<"Agent.__init__()", "missing", "1", "required", "positional",
                        "argument", ":", "'nome'">>]

\* nothing is constructed yet; nome holds the names of the objects built so far
InitConstrucao ==
    /\ df = None
    /\ nome = [e \in {} |-> ""]
    /\ pc = "nao_construido"
    /\ dados = <<>>
    /\ LocaisVazios
    /\ retorno = None
    /\ chamadas = <<>>
    /\ reinvocado = FALSE

\* one stage built on its own, without arguments
ConstruirEtapa(classe) ==
    /\ pc = "nao_construido"
    /\ LET objeto == ConstruirSemArgumentos(classe)
       IN  IF "excecao" \in DOMAIN objeto
           THEN /\ retorno' = objeto
                /\ nome' = nome
           ELSE /\ retorno' = None
                /\ nome' = nome @@ (classe :> objeto.nome)
    /\ chamadas' = <<classe>>
    /\ pc' = "etapa_construida"
    /\ UNCHANGED <<df, reinvocado, dados, dados_aluno, resultado_desempenho,
                   resultado_engajamento, resultado_diagnostico, resultado_validacao,
                   resultado_acao>>

\* lines 40-43 of CoordenadorAnalise.__init__: the name and the record set
IniciarCoordenador(tabela) ==
    /\ pc = "nao_construido"
    /\ nome' = nome @@ ("coordenador" :> Nomes.coordenador)
    /\ df' = tabela
    /\ pc' = "construindo"
    /\ UNCHANGED <<reinvocado, dados, dados_aluno, resultado_desempenho,
                   resultado_engajamento, resultado_diagnostico, resultado_validacao,
                   resultado_acao, retorno, chamadas>>

\* lines 46-50 of CoordenadorAnalise.__init__, one stage per step; an exception
\* leaves __init__ and no coordinator exists
ConstruirProximaEtapa ==
    /\ pc = "construindo"
    /\ LET classe == OrdemDeConstrucao[Len(chamadas) + 1]
           objeto == ConstruirSemArgumentos(classe)
       IN  /\ chamadas' = Append(chamadas, classe)
           /\ IF "excecao" \in DOMAIN objeto
              THEN /\ retorno' = objeto
                   /\ nome' = nome
                   /\ pc' = "construcao_falhou"
              ELSE /\ retorno' = None
                   /\ nome' = nome @@ (classe :> objeto.nome)
                   /\ pc' = IF Len(chamadas) + 1 = Len(OrdemDeConstrucao)
                            THEN "construido" ELSE "construindo"
    /\ UNCHANGED <<df, reinvocado, dados, dados_aluno, resultado_desempenho,
                   resultado_engajamento, resultado_diagnostico, resultado_validacao,
                   resultado_acao>>

NextConstrucao ==
    \/ \E classe \in DOMAIN DefineInit : ConstruirEtapa(classe)
    \/ \E tabela \in Datasets : IniciarCoordenador(tabela)
    \/ ConstruirProximaEtapa

SpecConstrucao == InitConstrucao /\ [][NextConstrucao]_vars

----------------------------------------------------------------------------
(* Properties *)

ResultadosDasEtapas ==
    [desempenho  |-> resultado_desempenho,
     engajamento |-> resultado_engajamento,
     diagnostico |-> resultado_diagnostico,
     validador   |-> resultado_validacao,
     conselheiro |-> resultado_acao]

Etapas == DOMAIN ResultadosDasEtapas

EtapaFalhou(e) == ResultadosDasEtapas[e] # None /\ ResultadosDasEtapas[e].status = "erro"

\* position of a stage in the dependency order; the two analyzers share the first
OrdemEtapa == [desempenho |-> 1, engajamento |-> 1, diagnostico |-> 2,
               validador |-> 3, conselheiro |-> 4]

\* C1: whenever one of the five stages returned a failure-status result, analisar
\* returns a failure-status result, never a success carrying a report.
C1_FalhaDeEtapaFalhaAnalise ==
    (pc = "retornado" /\ \E e \in Etapas : EtapaFalhou(e)) => retorno.status = "erro"

\* C2: once a stage has returned a failure-status result, no stage later in the
\* dependency order is invoked in that call.
C2_ParaNaPrimeiraFalha ==
    \A i, j \in DOMAIN chamadas :
        (i < j /\ EtapaFalhou(chamadas[i]))
            => OrdemEtapa[chamadas[j]] <= OrdemEtapa[chamadas[i]]

\* the argument names no student of the record set: no id, an empty id, or an id of no row
EntradaSemAluno ==
    \/ "id_aluno" \notin DOMAIN dados
    \/ dados.id_aluno = ""
    \/ \A i \in DOMAIN df : df[i].id_aluno # dados.id_aluno

\* C3: when the student id is missing, empty or matches no row, analisar returns a
\* failure-status result whose detail mapping holds an error description, and no
\* stage is invoked during that call.
C3_SemAlunoFalhaSemEtapas ==
    (pc # "ocioso" /\ EntradaSemAluno)
        => /\ pc = "retornado"
           /\ retorno.status = "erro"
           /\ "erro" \in DOMAIN retorno.detalhes
           /\ retorno.detalhes.erro # <<>>
           /\ chamadas = <<>>

C3_Witness ==
    /\ pc = "retornado"
    /\ "id_aluno" \in DOMAIN dados
    /\ dados.id_aluno = "alu_2"
    /\ df # <<>>
    /\ \A i \in DOMAIN df : df[i].id_aluno = "alu_1"
    /\ retorno.status = "erro"
    /\ chamadas = <<>>

MensagemPreenchida(template, nome_aluno, id_aluno) ==
    /\ nome_aluno \in Range(template)
    /\ id_aluno \in Range(template)
    /\ "[Nome]" \notin Range(template)
    /\ "{id_aluno}" \notin Range(template)

\* C4: every successful result of the intervention selector, and so every report,
\* carries a message with both placeholders substituted: it holds the student's
\* name and id and neither '[Nome]' nor '{id_aluno}'.
C4_MensagemSubstituida ==
    /\ (resultado_acao # None /\ resultado_acao.status = "sucesso")
           => MensagemPreenchida(resultado_acao.detalhes.template_mensagem,
                                 dados_aluno.nome_aluno, dados.id_aluno)
    /\ (pc = "retornado" /\ retorno.status = "sucesso")
           => MensagemPreenchida(retorno.detalhes.acaoRecomendada.templateMensagem,
                                 dados_aluno.nome_aluno, dados.id_aluno)

\* a rational of the test sets in tenths
Decimos(r) == (r.n * 10) \div r.d

\* the score the specification states, on decline and attendance in tenths
ScoreEsperado(queda10, presenca10) ==
    LET D == CASE queda10 > 30 -> 50
               [] queda10 > 20 /\ queda10 <= 30 -> 40
               [] queda10 > 10 /\ queda10 <= 20 -> 20
               [] OTHER -> 0
        A == CASE presenca10 < 500 -> 50
               [] presenca10 >= 500 /\ presenca10 < 700 -> 30
               [] presenca10 >= 700 /\ presenca10 < 850 -> 10
               [] OTHER -> 0
    IN  IF D + A > 100 THEN 100 ELSE D + A

\* C5: the risk score is D + A capped at 100, D being 50, 40, 20 or 0 by the decline
\* tier (> 3, > 2, > 1) and A being 50, 30, 10 or 0 by the attendance tier
\* (< 50, < 70, < 85); it is an integer of 0..100.
C5_ScoreDeRisco ==
    pc = "etapa_fim"
        => /\ retorno.scoreRiscoEvasao =
                  ScoreEsperado(Decimos(resultado_desempenho.detalhes.queda_rendimento),
                                Decimos(resultado_engajamento.detalhes.percentual_presenca))
           /\ retorno.scoreRiscoEvasao \in 0..100

C5_Witness ==
    /\ pc = "etapa_fim"
    /\ resultado_desempenho.detalhes.queda_rendimento = Rat(30, 10)
    /\ resultado_engajamento.detalhes.percentual_presenca = Int2Rat(49)
    /\ retorno.scoreRiscoEvasao = 90

\* C6: the hypothesis former produces one hypothesis, by first match: decline > 2.0
\* and attendance < 70 gives general decline; else exactly one critical subject
\* gives specific difficulty in that subject; else decline > 1.5 gives decline with
\* selective absences; else stable performance.
C6_HipotesePorPrecedencia ==
    (pc \in {"etapa_validador", "etapa_conselheiro", "etapa_relatorio", "etapa_fim"})
        => LET q == Decimos(resultado_desempenho.detalhes.queda_rendimento)
               p == Decimos(resultado_engajamento.detalhes.percentual_presenca)
               c == resultado_desempenho.detalhes.disciplinas_criticas
               h == resultado_diagnostico.resultado
           IN  /\ resultado_diagnostico.status = "sucesso"
               /\ CASE q > 20 /\ p < 700 -> h = HipoteseQuedaGeral
                    [] ~(q > 20 /\ p < 700) /\ Len(c) = 1 ->
                           /\ SubSeq(h, 1, 4) = <<"Dificuldade", "específica", "em", c[1]>>
                           /\ h \in {HipoteseDificuldade(c[1], b) : b \in BOOLEAN}
                    [] ~(q > 20 /\ p < 700) /\ Len(c) # 1 /\ q > 15 ->
                           h = HipoteseQuedaSeletiva
                    [] OTHER -> h = HipoteseEstavel

\* one critical subject with a decline above 1.5 and above 2.0: the second rule wins
C6_Witness ==
    /\ pc = "etapa_validador"
    /\ resultado_desempenho.detalhes.queda_rendimento = Rat(21, 10)
    /\ resultado_engajamento.detalhes.percentual_presenca = Int2Rat(70)
    /\ resultado_desempenho.detalhes.disciplinas_criticas = <<"Fisica">>
    /\ resultado_diagnostico.resultado = HipoteseDificuldade("Fisica", TRUE)

\* C7: handed the former's general-decline hypothesis, the validator refutes it
\* (confirmed = false, with a nuance) when there is exactly one critical subject and
\* attendance > 60, and otherwise confirms it with exactly two evidence strings.
C7_ValidaQuedaGeral ==
    (/\ resultado_validacao # None
     /\ resultado_validacao.status = "sucesso"
     /\ resultado_diagnostico.status = "sucesso"
     /\ resultado_diagnostico.resultado = HipoteseQuedaGeral)
        => LET c == Get(resultado_desempenho.detalhes, "disciplinas_criticas", <<>>)
               p == Get(resultado_engajamento.detalhes, "percentual_presenca", Int2Rat(100))
               v == resultado_validacao.detalhes
           IN  IF Len(c) = 1 /\ Gt(p, Int2Rat(60))
               THEN v.confirmada = FALSE /\ v.nuances # <<>>
               ELSE v.confirmada = TRUE /\ Len(v.evidencias) = 2

\* the tag the specification states for a validation result
TagEsperada(detalhes, narrativa) ==
    IF \E i \in DOMAIN detalhes.nuances : Contains(detalhes.nuances[i], <<"específica">>)
    THEN "DIFICULDADE_PONTUAL_EM_DISCIPLINA_CRITICA"
    ELSE IF Contains(Lower(narrativa), <<"geral">>)
    THEN "DESENGAJAMENTO_GERAL"
    ELSE "DESEMPENHO_INSTAVEL"

\* C8: the key-diagnosis tag is DIFICULDADE_PONTUAL_EM_DISCIPLINA_CRITICA whenever a
\* nuance of the validator contains 'específica'; otherwise DESENGAJAMENTO_GERAL if
\* the validator's narrative mentions 'geral'; otherwise DESEMPENHO_INSTAVEL.
C8_TagDoDiagnostico ==
    (pc = "etapa_fim" /\ resultado_validacao.status = "sucesso")
        => retorno.diagnosticoChave =
               TagEsperada(resultado_validacao.detalhes, resultado_validacao.resultado)

\* the playbook id the specification states, on decline and attendance in tenths
PlaybookEsperado(queda10, presenca10, n_criticas) ==
    CASE queda10 > 30 /\ presenca10 < 500 -> "PB_PEDAG_04"
      [] ~(queda10 > 30 /\ presenca10 < 500) /\ n_criticas = 1 /\ presenca10 > 700 ->
             "PB_PEDAG_02"
      [] ~(queda10 > 30 /\ presenca10 < 500) /\ n_criticas > 1 /\ presenca10 < 700 ->
             "PB_PEDAG_01"
      [] OTHER -> "PB_PEDAG_03"

TitulosDoPlaybook ==
    [PB_PEDAG_01 |-> "Acompanhamento Geral Intensivo",
     PB_PEDAG_02 |-> "Agendar Reunião de Apoio Pedagógico Focado",
     PB_PEDAG_03 |-> "Oferecer Tutoria Especializada",
     PB_PEDAG_04 |-> "Avaliação Psicopedagógica"]

CanaisDoPlaybook ==
    [PB_PEDAG_01 |-> "Sistema Acadêmico / E-mail do Coordenador",
     PB_PEDAG_02 |-> "Sistema Acadêmico / E-mail do Coordenador",
     PB_PEDAG_03 |-> "Sistema Acadêmico / E-mail do Tutor",
     PB_PEDAG_04 |-> "Sistema Acadêmico / E-mail do Psicopedagogo"]

\* C9: the intervention selector returns one playbook entry, by first match:
\* decline > 3.0 and attendance < 50 gives PB_PEDAG_04; else one critical subject and
\* attendance > 70 gives PB_PEDAG_02; else more than one critical subject and
\* attendance < 70 gives PB_PEDAG_01; else PB_PEDAG_03; title and channel are those
\* of the selected id.
C9_PlaybookPorPrecedencia ==
    (pc \in {"etapa_relatorio", "etapa_fim"})
        => LET id == PlaybookEsperado(
                         Decimos(resultado_desempenho.detalhes.queda_rendimento),
                         Decimos(resultado_engajamento.detalhes.percentual_presenca),
                         Len(resultado_desempenho.detalhes.disciplinas_criticas))
           IN  /\ resultado_acao.status = "sucesso"
               /\ resultado_acao.detalhes.playbook_id = id
               /\ resultado_acao.detalhes.titulo = TitulosDoPlaybook[id]
               /\ resultado_acao.detalhes.canal = CanaisDoPlaybook[id]

\* one critical subject at exactly 70% attendance: the second rule does not fire
C9_Witness ==
    /\ pc = "etapa_relatorio"
    /\ resultado_engajamento.detalhes.percentual_presenca = Int2Rat(70)
    /\ resultado_desempenho.detalhes.disciplinas_criticas = <<"Calculo">>
    /\ resultado_acao.detalhes.playbook_id = "PB_PEDAG_03"

\* a returned report of a student with current-term mean 5.0, previous-terms mean
\* 8.0 and attendance 40%
RelatorioDoCenario1 ==
    /\ pc = "retornado"
    /\ retorno.status = "sucesso"
    /\ \A e \in Etapas : ~EtapaFalhou(e)
    /\ resultado_desempenho.detalhes.media_atual = Int2Rat(5)
    /\ resultado_desempenho.detalhes.media_anterior = Int2Rat(8)
    /\ resultado_engajamento.detalhes.percentual_presenca = Int2Rat(40)

\* C10 as stated: for current-term mean 5.0, previous-terms mean 8.0 and attendance
\* 40%, the report has risk score 100, the general-decline hypothesis and the
\* psycho-pedagogical referral.
C10_Cenario1Original ==
    RelatorioDoCenario1
        => /\ retorno.detalhes.scoreRiscoEvasao = 100
           /\ retorno.detalhes.processoDeAnalise.hipoteseInicial = HipoteseQuedaGeral
           /\ retorno.detalhes.acaoRecomendada.playbookId = "PB_PEDAG_04"

\* C10 amended: for current-term mean 5.0, previous-terms mean 8.0 (decline 3.0, not
\* above 3) and attendance 40%, the report has risk score 90 (40 + 50), the
\* general-decline hypothesis, and intensive general monitoring (PB_PEDAG_01) when
\* there is more than one critical subject, specialized tutoring (PB_PEDAG_03)
\* otherwise.
C10_Cenario1 ==
    RelatorioDoCenario1
        => /\ retorno.detalhes.scoreRiscoEvasao = 90
           /\ retorno.detalhes.processoDeAnalise.hipoteseInicial = HipoteseQuedaGeral
           /\ retorno.detalhes.acaoRecomendada.playbookId =
                  IF Len(resultado_desempenho.detalhes.disciplinas_criticas) > 1
                  THEN "PB_PEDAG_01" ELSE "PB_PEDAG_03"

C10_Witness ==
    /\ RelatorioDoCenario1
    /\ Len(resultado_desempenho.detalhes.disciplinas_criticas) = 2
    /\ retorno.detalhes.acaoRecomendada.playbookId = "PB_PEDAG_01"


\* the number of class sessions of a subject the student missed, counted on the
\* extracted events
AusenciasNaDisciplina(disciplina) ==
    LET eventos == dados_aluno.dados_engajamento.eventos
    IN  Cardinality({i \in DOMAIN eventos :
                        eventos[i].disciplina = disciplina /\ eventos[i].presenca = 0})

\* a returned report of a student with exactly one critical subject and 80% attendance
RelatorioDoCenario2 ==
    /\ pc = "retornado"
    /\ retorno.status = "sucesso"
    /\ \A e \in Etapas : ~EtapaFalhou(e)
    /\ Len(resultado_desempenho.detalhes.disciplinas_criticas) = 1
    /\ resultado_engajamento.detalhes.percentual_presenca = Int2Rat(80)

\* C11: for a student with exactly one critical subject S and attendance 80%, the
\* report's hypothesis is 'Dificuldade específica em S', with the clause 'com
\* ausências concentradas' exactly when S has at least one absence, and the playbook
\* is the focused pedagogical meeting (PB_PEDAG_02).
C11_Cenario2 ==
    RelatorioDoCenario2
        => LET S == resultado_desempenho.detalhes.disciplinas_criticas[1]
           IN  /\ retorno.detalhes.processoDeAnalise.hipoteseInicial =
                      <<"Dificuldade", "específica", "em", S>>
                      \o (IF AusenciasNaDisciplina(S) > 0
                          THEN <<"com", "ausências", "concentradas", ".">>
                          ELSE <<".">>)
               /\ retorno.detalhes.acaoRecomendada.playbookId = "PB_PEDAG_02"
               /\ retorno.detalhes.acaoRecomendada.titulo =
                      "Agendar Reunião de Apoio Pedagógico Focado"

C11_Witness ==
    /\ RelatorioDoCenario2
    /\ resultado_desempenho.detalhes.disciplinas_criticas = <<"Calculo">>
    /\ AusenciasNaDisciplina("Calculo") = 1
    /\ "concentradas" \in Range(retorno.detalhes.processoDeAnalise.hipoteseInicial)


\* r is a value of the AgentResponse model: the four fields, a status of the two
EhAgentResponse(r) ==
    /\ DOMAIN r = {"agent_name", "status", "resultado", "detalhes"}
    /\ r.status \in {"sucesso", "erro"}

\* C12: whatever mapping a stage is handed (well-formed, or the error mapping of a
\* failed stage with every expected key missing) and whether or not an exception is
\* raised inside it, the stage returns an AgentResponse; when its status is 'erro'
\* the summary ends with the error description and detalhes holds the key 'erro'.
C12_EtapaNuncaPropaga ==
    \A e \in Etapas :
        LET r == ResultadosDasEtapas[e]
        IN  r # None
                => /\ EhAgentResponse(r)
                   /\ r.status = "erro"
                          => /\ "erro" \in DOMAIN r.detalhes
                             /\ r.detalhes.erro # <<>>
                             /\ Len(r.resultado) > Len(r.detalhes.erro)
                             /\ SubSeq(r.resultado,
                                       Len(r.resultado) - Len(r.detalhes.erro) + 1,
                                       Len(r.resultado)) = r.detalhes.erro

\* the performance stage failed, the diagnosis stage was handed its error mapping
\* and succeeded, and the validator failed in turn
C12_Witness ==
    /\ EtapaFalhou("desempenho")
    /\ resultado_diagnostico # None
    /\ resultado_diagnostico.status = "sucesso"
    /\ "erro" \in DOMAIN resultado_diagnostico.detalhes.desempenho
    /\ EtapaFalhou("validador")


\* the hypothesis text carries neither of the two phrasings the validator looks for
TextoNaoReconhecido(hipotese) ==
    /\ ~Contains(Lower(hipotese), <<"desengajamento", "geral">>)
    /\ ~Contains(Lower(hipotese), <<"dificuldade", "específica">>)

\* C13: for a hypothesis text with neither the general-decline nor the
\* specific-difficulty phrasing, whatever the detail mappings, the validator returns
\* a success result with confirmada = TRUE, no nuance and no evidence.
C13_TextoNaoReconhecido ==
    (resultado_validacao # None /\ "hipotese" \in DOMAIN dados
            /\ TextoNaoReconhecido(dados.hipotese))
        => /\ resultado_validacao.status = "sucesso"
           /\ resultado_validacao.detalhes.confirmada = TRUE
           /\ resultado_validacao.detalhes.nuances = <<>>
           /\ resultado_validacao.detalhes.evidencias = <<>>

C13_Witness ==
    /\ resultado_validacao # None
    /\ "hipotese" \in DOMAIN dados
    /\ dados.hipotese = HipoteseQuedaSeletiva
    /\ Len(resultado_desempenho.detalhes.disciplinas_criticas) = 2
    /\ resultado_validacao.status = "sucesso"
    /\ resultado_validacao.detalhes.evidencias = <<>>


\* C14: in an invocation that reaches the stages, every stage is invoked at most
\* once; a stage is invoked only after every stage earlier in the dependency order
\* (both analyzers, then the former, then the validator, then the selector) has been
\* invoked and has returned; and analisar returns only after all five have.
C14_OrdemDasEtapas ==
    /\ \A i, j \in DOMAIN chamadas : i < j => chamadas[i] # chamadas[j]
    /\ \A i \in DOMAIN chamadas :
           /\ chamadas[i] \in Etapas
           /\ ResultadosDasEtapas[chamadas[i]] # None
           /\ \A e \in Etapas :
                  OrdemEtapa[e] < OrdemEtapa[chamadas[i]]
                      => \E j \in 1..(i - 1) : chamadas[j] = e
    /\ \A e \in Etapas :
           ResultadosDasEtapas[e] # None => \E i \in DOMAIN chamadas : chamadas[i] = e
    /\ (pc = "retornado" /\ chamadas # <<>>)
           => /\ Len(chamadas) = 5
              /\ chamadas[5] = "conselheiro"
    /\ pc = "montagem" => (Len(chamadas) = 5 /\ resultado_acao # None)

C14_Witness ==
    /\ pc = "retornado"
    /\ retorno.status = "sucesso"
    /\ chamadas = <<"desempenho", "engajamento", "diagnostico", "validador", "conselheiro">>


\* the events the engagement analyzer was handed
EventosDados == Get(dados_aluno.dados_engajamento, "eventos", <<>>)

\* C15: for attendance events whose flags are all 0 or 1, the engagement analyzer's
\* attendance percentage lies in [0, 100], is 100 when every flag is 1, is 0 when
\* every flag is 0 or there is no event, and in general is
\* 100 * (events with flag 1) / (events).
C15_PercentualDePresenca ==
    (/\ resultado_engajamento # None
     /\ resultado_engajamento.status = "sucesso"
     /\ \A i \in DOMAIN EventosDados :
            "presenca" \in DOMAIN EventosDados[i] /\ EventosDados[i].presenca \in {0, 1})
        => LET p        == resultado_engajamento.detalhes.percentual_presenca
               total    == Len(EventosDados)
               presente == Cardinality({i \in DOMAIN EventosDados :
                                           EventosDados[i].presenca = 1})
           IN  /\ p.d > 0 /\ p.n >= 0 /\ p.n <= 100 * p.d
               /\ total = 0 => p = Int2Rat(0)
               /\ presente = 0 => p = Int2Rat(0)
               /\ (total > 0 /\ presente = total) => p = Int2Rat(100)
               /\ total > 0 => p.n * total = 100 * presente * p.d

\* two of three events attended: 66.66...%
C15_Witness ==
    /\ resultado_engajamento # None
    /\ resultado_engajamento.status = "sucesso"
    /\ Len(EventosDados) = 3
    /\ \A i \in DOMAIN EventosDados : "presenca" \in DOMAIN EventosDados[i]
    /\ resultado_engajamento.detalhes.percentual_presenca = [n |-> 200, d |-> 3]

\* the subject -> scores mapping the performance analyzer was handed
DisciplinasDados == Get(dados_aluno.dados_desempenho, "disciplinas", <<>>)

\* sum and count of a score sequence, the mean of no score being 0/1
SomaENumero(notas) ==
    IF notas = <<>> THEN [soma |-> 0, numero |-> 1]
    ELSE [soma |-> Sum(notas), numero |-> Len(notas)]

\* C16: the performance analyzer's critical-subject list holds exactly the subjects
\* of the mapping whose mean score (0.0 for no score) is below 6.0, each once, in
\* the mapping's order; and the decline is the previous-terms mean minus the
\* current-term mean.
C16_CriticasEQueda ==
    (resultado_desempenho # None /\ resultado_desempenho.status = "sucesso")
        => LET criticas == resultado_desempenho.detalhes.disciplinas_criticas
               queda    == resultado_desempenho.detalhes.queda_rendimento
               abaixo   == {i \in DOMAIN DisciplinasDados :
                               LET m == SomaENumero(DisciplinasDados[i].v)
                               IN  m.soma < 6 * m.numero}
               atual    == SomaENumero(Get(dados_aluno.dados_desempenho,
                                           "notas_atuais", <<>>))
               anterior == SomaENumero(Get(dados_aluno.dados_desempenho,
                                           "notas_anteriores", <<>>))
           IN  /\ Len(criticas) = Cardinality(abaixo)
               /\ \A i \in abaixo :
                      DisciplinasDados[i].k =
                          criticas[Cardinality({j \in abaixo : j <= i})]
               /\ queda.d > 0
               /\ queda.n * (anterior.numero * atual.numero) =
                      (anterior.soma * atual.numero - atual.soma * anterior.numero)
                          * queda.d

\* a subject with no score and one at mean 5.5, listed in the mapping's order; the
\* subject at mean 8.0 is left out; decline 8.0 - 5.5
C16_Witness ==
    /\ resultado_desempenho # None
    /\ resultado_desempenho.status = "sucesso"
    /\ resultado_desempenho.detalhes.disciplinas_criticas = <<"Fisica", "Quimica">>
    /\ resultado_desempenho.detalhes.queda_rendimento = Rat(25, 10)


\* the stages in which an exception was raised during the current call
EtapasComFalha ==
    {e \in Etapas : EtapaFalhou(e) /\ ResultadosDasEtapas[e].detalhes.erro = MsgFalha}

\* what analisar returns for the mapping d on the record set tabela when it is the
\* first call: the stages composed on fresh locals, raising in the stages of falhas
AnaliseIsolada(tabela, d, falhas) ==
    IF "id_aluno" \notin DOMAIN d \/ d.id_aluno = ""
    THEN ErroOrquestracao(<<"ID", "do", "aluno", "não", "fornecido">>)
    ELSE
    LET extraido == _extrair_dados_aluno(tabela, d.id_aluno)
    IN  IF extraido = None
        THEN ErroOrquestracao(<<"Aluno", d.id_aluno, "não", "encontrado">>)
        ELSE
        LET r_desempenho ==
                AnalisadorDesempenho_analisar(nome.desempenho, extraido.dados_desempenho,
                                              "desempenho" \in falhas)
            r_engajamento ==
                AnalisadorEngajamento_analisar(nome.engajamento,
                                               extraido.dados_engajamento,
                                               "engajamento" \in falhas)
            r_diagnostico ==
                AgenteDiagnostico_analisar(nome.diagnostico,
                    [relatorio_desempenho  |-> r_desempenho,
                     relatorio_engajamento |-> r_engajamento,
                     detalhes_desempenho   |-> r_desempenho.detalhes,
                     detalhes_engajamento  |-> r_engajamento.detalhes],
                    "diagnostico" \in falhas)
            r_validacao ==
                ValidadorHipoteses_analisar(nome.validador,
                    [hipotese             |-> r_diagnostico.resultado,
                     detalhes_desempenho  |-> r_desempenho.detalhes,
                     detalhes_engajamento |-> r_engajamento.detalhes],
                    "validador" \in falhas)
            r_acao ==
                ConselheiroAcademico_analisar(nome.conselheiro,
                    [diagnostico          |-> r_validacao.resultado,
                     id_aluno             |-> d.id_aluno,
                     nome_aluno           |-> extraido.nome_aluno,
                     detalhes_desempenho  |-> r_desempenho.detalhes,
                     detalhes_engajamento |-> r_engajamento.detalhes],
                    "conselheiro" \in falhas)
            json_final ==
                _montar_json_final(d.id_aluno, extraido, r_desempenho, r_engajamento,
                                   r_diagnostico, r_validacao, r_acao)
        IN  IF "excecao" \in DOMAIN json_final
            THEN ErroOrquestracao(json_final.excecao)
            ELSE AgentResponse(nome.coordenador, "sucesso",
                     <<"Análise", "completa", "realizada", "com", "sucesso">>, json_final)

\* C17: whatever calls of analisar came before (for any id, successful or failed),
\* a call returns what it would return as the first call on the same record set
\* with the same stages raising; and no step changes the record set or the stages.
C17_SemEstadoEntreChamadas ==
    /\ [](pc = "retornado" => retorno = AnaliseIsolada(df, dados, EtapasComFalha))
    /\ [][df' = df /\ nome' = nome]_vars

\* a successful report for alu_2 returned by a call that followed an earlier one
C17_Witness ==
    /\ reinvocado
    /\ pc = "retornado"
    /\ retorno.status = "sucesso"
    /\ dados = [id_aluno |-> "alu_2"]
    /\ \E i \in DOMAIN df : df[i].id_aluno = "alu_1"


C19_ValidaDificuldadeEspecifica ==
    (/\ resultado_validacao # None
     /\ "hipotese" \in DOMAIN dados
     /\ ~Contains(Lower(dados.hipotese), <<"desengajamento", "geral">>)
     /\ Contains(Lower(dados.hipotese), <<"dificuldade", "específica">>))
        => LET criticas  == resultado_desempenho.detalhes.disciplinas_criticas
               ausencias == resultado_engajamento.detalhes.padroes_ausencia
                                .ausencias_por_disciplina
               v         == resultado_validacao.detalhes
           IN  /\ resultado_validacao.status = "sucesso"
               /\ Len(criticas) > 1
                      => (v.nuances = <<NuanceMultiplas>> /\ v.evidencias = <<>>)
               /\ Len(criticas) <= 1 => (v.confirmada = TRUE /\ v.nuances = <<>>)
               /\ Len(criticas) = 1
                      => v.evidencias =
                             <<EvidenciaCriticas(criticas)>>
                             \o (IF DictHas(ausencias, criticas[1])
                                 THEN <<EvidenciaAusencias(criticas[1])>> ELSE <<>>)


\* C20: each of the five stages can be built without arguments and then holds its
\* own name, the engagement analyzer and the validator included, and the
\* construction of the coordinator over a loaded record set does not fail in a
\* stage: it ends with the coordinator and the five stages named.
C20_EtapasConstruidasComNome ==
    /\ pc = "etapa_construida"
           => (retorno = None /\ chamadas[1] \in DOMAIN nome
                              /\ nome[chamadas[1]] = Nomes[chamadas[1]])
    /\ pc # "construcao_falhou"
    /\ pc = "construido" => nome = Nomes


\* what each analyzer returns on its own slice of the extracted data, raising or
\* not as it did in this run
DesempenhoIsolado ==
    AnalisadorDesempenho_analisar(nome.desempenho, dados_aluno.dados_desempenho,
                                  EtapaFalhou("desempenho"))

EngajamentoIsolado ==
    AnalisadorEngajamento_analisar(nome.engajamento, dados_aluno.dados_engajamento,
                                   EtapaFalhou("engajamento"))

\* C21: the two analyzers are independent.  Whichever runs first, each returns what
\* it returns on its own slice of the extracted data, so the hypothesis, validation,
\* intervention, risk score and tag derived from the two results are the same in
\* both orders; and a step of one analyzer changes neither the other's result nor
\* the extracted data.
C21_AnalisadoresIndependentes ==
    /\ [](/\ resultado_desempenho # None => resultado_desempenho = DesempenhoIsolado
          /\ resultado_engajamento # None => resultado_engajamento = EngajamentoIsolado
          /\ pc = "derivado"
                 => LET derivados == Derivar(DesempenhoIsolado, EngajamentoIsolado)
                    IN  /\ resultado_diagnostico = derivados.diagnostico
                        /\ resultado_validacao = derivados.validacao
                        /\ resultado_acao = derivados.acao
                        /\ retorno = derivados.indicadores)
    /\ [][/\ dados_aluno' = dados_aluno
          /\ resultado_desempenho' # resultado_desempenho
                 => resultado_engajamento' = resultado_engajamento
          /\ resultado_engajamento' # resultado_engajamento
                 => resultado_desempenho' = resultado_desempenho]_vars

\* the engagement analyzer ran before the performance analyzer, both succeeded, and
\* the rest of the pipeline was derived from their results
C21_Witness ==
    /\ pc = "derivado"
    /\ chamadas[1] = "engajamento"
    /\ chamadas[2] = "desempenho"
    /\ resultado_desempenho.status = "sucesso"
    /\ resultado_engajamento.status = "sucesso"
    /\ resultado_desempenho.detalhes.disciplinas_criticas = <<"Fisica">>
    /\ resultado_acao.status = "sucesso"


\* C22: in every successful report the risk score is 100 exactly when the playbook
\* is the psycho-pedagogical referral (PB_PEDAG_04), in which case the initial
\* hypothesis is the general-decline text; and when the playbook is the focused
\* pedagogical meeting (PB_PEDAG_02) the initial hypothesis is 'Dificuldade
\* específica em <subject>', with or without the absences clause.
C22_ConsistenciaDoRelatorio ==
    (pc = "retornado" /\ retorno.status = "sucesso")
        => LET playbook_id == retorno.detalhes.acaoRecomendada.playbookId
               hipotese    == retorno.detalhes.processoDeAnalise.hipoteseInicial
           IN  /\ retorno.detalhes.scoreRiscoEvasao = 100 <=> playbook_id = "PB_PEDAG_04"
               /\ playbook_id = "PB_PEDAG_04" => hipotese = HipoteseQuedaGeral
               /\ playbook_id = "PB_PEDAG_02"
                      => \E disciplina \in {"Calculo", "Fisica", "Quimica"},
                            com_ausencias \in BOOLEAN :
                             hipotese = HipoteseDificuldade(disciplina, com_ausencias)

\* the same consistency for the reports of calls in which no stage returned a
\* failure; it holds under Spec
RelatorioConsistenteSemFalha ==
    (\A e \in Etapas : ~EtapaFalhou(e)) => C22_ConsistenciaDoRelatorio

====
